---------------------------- MODULE Spec2Model ----------------------------
(***************************************************************************)
(* Bay Area air-quality simulator: the fixed-timestep clock (TimeManager), *)
(* the emission generator (polluters.js) and the particle engine           *)
(* (orchestrator.js), modelled as state machines.                          *)
(*                                                                         *)
(* Numbers.  The source computes in IEEE doubles; the model computes in    *)
(* exact integers over fixed units, so rounding error is not modelled.     *)
(*   clock time       : 1/1200 s   (fixedDeltaTime = 1/60 s = 20 units)     *)
(*   realDeltaTime    : 1/120 s    (so realDeltaTime * timeScale, with      *)
(*                                  timeScale in tenths, is in 1/1200 s)    *)
(*   timeScale        : tenths                                             *)
(***************************************************************************)
EXTENDS Integers, Sequences, FiniteSets, TLC

VARIABLES
    TimeManager,   \* the TimeManager object: accumulator, simulationTime,
                   \* paused, timeScale, stepsThisFrame
    registry,      \* registry.js: POINT_EMITTERS and LINE_EMITTERS
    processedPointEmitters,   \* polluters.js: the processed point emitters
    processedLineEmitters,    \* polluters.js: the processed line emitters
    settings,      \* main.js: the settings object
    emissions,     \* the events returned by the last emit()
    emitThrew,     \* whether the last emit() threw
    lastCall,      \* history: the arguments of the last setEmitterScale or
                   \* setLineEmitterScale
    elevationData, \* map.js: the raster of the GeoTIFF, once it is loaded
    appState,      \* main.js: appState.paused
    lastReset,     \* history: whether the last onReset found the clock
                   \* advanced, and the pools and grids filled
    run,           \* history: the inputs of the first run of the program and
                   \* the pools they led to, and the position of the second
                   \* run in them
    particles,     \* orchestrator.js: pollutant id -> array of particles
    gridCells,     \* orchestrator.js: pollutant id -> cells, in insertion order
    paused,        \* orchestrator.js: paused
    instancedMeshes,   \* orchestrator.js: pollutant id -> the mesh's count
                   \* and the instances it draws
    pc,            \* the statement of stepOrchestrator that runs next
    rng,           \* the Math.random() values of the running step and how
                   \* many of them have been drawn
    ticks,         \* the number of steps that have run
    tickLog,       \* history: the statements the running (or last) step ran
    touched,       \* history: the particles that met the terrain in it
    lastOp,        \* history: the operation that produced this state
    lastDt,        \* history: realDeltaTime of the last TimeManager.update
    lastScale,     \* history: the argument of the last setTimeScale
    stepsReturned  \* history: the sum of the values update() has returned
                   \* since the last init() or reset()

clockVars == <<TimeManager, lastDt, lastScale, stepsReturned>>
emitterVars == <<registry, processedPointEmitters, processedLineEmitters, lastCall>>
emitVars == <<emitterVars, settings, emissions, emitThrew>>
engineVars == <<particles, gridCells, paused, instancedMeshes, pc, rng, ticks, tickLog, touched>>
appVars == <<elevationData, appState, lastReset, run>>
vars == <<clockVars, emitVars, engineVars, appVars, lastOp>>

-----------------------------------------------------------------------------
(* TimeManager                                                             *)

fixedDeltaTime == 20     \* 1/60 s
maxSubSteps == 8
MinTimeScale == 1        \* 0.1
MaxTimeScale == 100      \* 10
DefaultTimeScale == 10   \* 1.0

\* Bound of the model: update() is not taken once simulationTime has
\* reached MaxSimSteps fixed steps.
MaxSimSteps == 10

\* Frame times fed to update(): 0, 1/120 s, 1/40 s, 1/24 s and a 10 s stall.
RealDeltaTimes == {0, 1, 3, 5, 1200}

\* Arguments given to setTimeScale(): 0, 0.5, 1.0, 2.5, 25.
TimeScaleInputs == {0, 5, 10, 25, 250}

Max(a, b) == IF a >= b THEN a ELSE b
Min(a, b) == IF a <= b THEN a ELSE b

\* TimeManager.init()
TimeManagerInit ==
    [accumulator |-> 0, simulationTime |-> 0, paused |-> FALSE,
     timeScale |-> DefaultTimeScale, stepsThisFrame |-> 0]

\* update(): "Cap to prevent spiral of death"
capAccumulator_OneMore(acc) == Min(acc, fixedDeltaTime * (maxSubSteps + 1))
capAccumulator(acc) ==
    IF acc > fixedDeltaTime * maxSubSteps THEN fixedDeltaTime * maxSubSteps ELSE acc

\* update(): the loop condition of the drain loop
drainCondition_Strict(acc) == acc > fixedDeltaTime
drainCondition(acc) == acc >= fixedDeltaTime

\* update(): the drain loop, "Count how many fixed steps fit in accumulated time"
drain_NoSimulationTime(acc, sim, steps) ==
    [accumulator |-> acc % fixedDeltaTime, simulationTime |-> sim,
     steps |-> steps + acc \div fixedDeltaTime]
RECURSIVE drain(_, _, _)
drain(acc, sim, steps) ==
    IF drainCondition(acc)
    THEN drain(acc - fixedDeltaTime, sim + fixedDeltaTime, steps + 1)
    ELSE [accumulator |-> acc, simulationTime |-> sim, steps |-> steps]

\* update() when not paused
updateRunning_Doubled(tm, realDeltaTime) ==
    [tm EXCEPT !.accumulator =
                 drain(capAccumulator(tm.accumulator + 2 * realDeltaTime * tm.timeScale),
                       tm.simulationTime, 0).accumulator,
               !.simulationTime =
                 drain(capAccumulator(tm.accumulator + 2 * realDeltaTime * tm.timeScale),
                       tm.simulationTime, 0).simulationTime,
               !.stepsThisFrame =
                 drain(capAccumulator(tm.accumulator + 2 * realDeltaTime * tm.timeScale),
                       tm.simulationTime, 0).steps]
updateRunning(tm, realDeltaTime) ==
    LET scaledDelta == realDeltaTime * tm.timeScale
        d == drain(capAccumulator(tm.accumulator + scaledDelta), tm.simulationTime, 0)
    IN [tm EXCEPT !.accumulator = d.accumulator,
                  !.simulationTime = d.simulationTime,
                  !.stepsThisFrame = d.steps]

\* TimeManager.update(realDeltaTime); the value returned is stepsThisFrame.
\* (frameCount and avgFrameTime are statistics that nothing modelled reads.)
update_IgnoresPause(tm, realDeltaTime) == updateRunning(tm, realDeltaTime)
update(tm, realDeltaTime) ==
    IF tm.paused
    THEN [tm EXCEPT !.stepsThisFrame = 0]
    ELSE updateRunning(tm, realDeltaTime)

\* TimeManager.setTimeScale(scale)
setTimeScale_Unclamped(tm, scale) == [tm EXCEPT !.timeScale = scale]
setTimeScale(tm, scale) ==
    [tm EXCEPT !.timeScale = Max(MinTimeScale, Min(MaxTimeScale, scale))]

\* TimeManager.setPaused(paused)
setPaused_Dropped(tm, p) == tm
setPaused(tm, p) == [tm EXCEPT !.paused = p]

\* TimeManager.reset()
reset_KeepsSimulationTime(tm) == [tm EXCEPT !.accumulator = 0]
reset(tm) == [tm EXCEPT !.accumulator = 0, !.simulationTime = 0]

-----------------------------------------------------------------------------
(* Units of the emission generator and of the engine                       *)
(*   world length     : 1/1200 km (1 km = 1200; the terrain is sampled on   *)
(*                      squares of 0.05 km = 60)                            *)
(*   velocity         : 0.05 km/s, which moves a particle by one length     *)
(*                      unit in a step of 1/60 s                            *)
(*   engine time      : 1/60 s    (fixedDt = 1, lifetime 45 s = 2700)       *)
(*   longitude, lat.  : 0.01 degree east of lonMin / north of latMin        *)
(*   base rate        : tenths of a particle per second                     *)
(*   emitter scale    : tenths                                             *)
(*   emissionRate     : thousandths in the user's settings, and             *)
(*                      ten-thousandths in the settings handed to emit()    *)
(*   Math.random()    : r / RandDen for a draw r in RandomValues            *)

PollutantIds == <<"PM25", "VOC", "OZONE">>
PollutantSet == {PollutantIds[i] : i \in 1..Len(PollutantIds)}

\* The values a Math.random() call can return, as numerators over RandDen.
RandomValues == {0, 1}
RandDen == Cardinality(RandomValues)

\* Bound of the model: the draws of one handler are read cyclically from a
\* tape of TapeLen values.
TapeLen == 3
Tapes == [1..TapeLen -> RandomValues]
draw(tape, k) == tape[(k % Len(tape)) + 1]

Abs(a) == IF a < 0 THEN -a ELSE a

\* Math.sqrt on the integers of the model: the floor of the square root,
\* found by bisection between lo and hi (lo * lo <= n < hi * hi).
RECURSIVE sqrtBetween(_, _, _)
sqrtBetween(n, lo, hi) ==
    IF hi - lo <= 1 THEN lo
    ELSE LET mid == (lo + hi) \div 2
         IN IF mid * mid <= n THEN sqrtBetween(n, mid, hi) ELSE sqrtBetween(n, lo, mid)
Sqrt(n) == sqrtBetween(n, 0, 46340)

\* Math.sin over one period, in hundredths: pos of period units into the
\* period, interpolated between the values at the eighths of the period.
sinKnots == <<0, 71, 100, 71, 0, -71, -100, -71, 0>>
sinOfPeriod(pos, period) ==
    sinKnots[(pos * 8) \div period + 1]
    + ((sinKnots[(pos * 8) \div period + 2] - sinKnots[(pos * 8) \div period + 1])
       * ((pos * 8) % period)) \div period

\* Math.sin(z * 0.1) for cz = z in units of 0.05 km (the period is
\* 2 pi / 0.1 km = 1257 such units)
sinTenth(cz) == sinOfPeriod(cz % 1257, 1257)

\* registry.js GEO_BOUNDS / MAP_BOUNDS: 1.72 x 1.21 degrees, 151 x 134 km.
MAP_BOUNDS == [width |-> 181200, depth |-> 160800]
GEO_SPAN == [lon |-> 172, lat |-> 121]

\* registry.js geoToWorld(lon, lat)
geoToWorld(lon, lat) ==
    [x |-> (lon * MAP_BOUNDS.width) \div GEO_SPAN.lon - MAP_BOUNDS.width \div 2,
     z |-> MAP_BOUNDS.depth \div 2 - (lat * MAP_BOUNDS.depth) \div GEO_SPAN.lat]

\* registry.js EMITTER_PROFILES (the profiles the model's registry uses)
EMITTER_PROFILES ==
    [TOWN |-> [emissions |-> [PM25 |-> 20, VOC |-> 15, OZONE |-> 0],
               height |-> 600, spread |-> 1800, plumeRise |-> 0],
     CITY_LARGE |-> [emissions |-> [PM25 |-> 120, VOC |-> 100, OZONE |-> 0],
               height |-> 600, spread |-> 7200, plumeRise |-> 0],
     MEMORIAL |-> [emissions |-> [PM25 |-> 0, VOC |-> 0, OZONE |-> 0],
               height |-> 600, spread |-> 1200, plumeRise |-> 0],
     REFINERY_MEDIUM |-> [emissions |-> [PM25 |-> 180, VOC |-> 320, OZONE |-> 40],
               height |-> 4800, spread |-> 2400, plumeRise |-> 6000],
     HIGHWAY_MAJOR |-> [emissionsPerKm |-> [PM25 |-> 0, VOC |-> 0, OZONE |-> 0],
               height |-> 600, spread |-> 720]]

\* Every line profile of the shipped registry has emissionsPerKm of 0.  So
\* that emitFromLine's generation path runs, the model's registries may also
\* use PER_KM, a line profile with rates, as a changed registry would.
RegistryProfiles ==
    EMITTER_PROFILES @@
    ("PER_KM" :> [emissionsPerKm |-> [PM25 |-> 10, VOC |-> 0, OZONE |-> 5],
                  height |-> 600, spread |-> 720])

\* registry.js getProfile(profileName): undefined for an unknown name
getProfile(profileName) ==
    IF profileName \in DOMAIN RegistryProfiles
    THEN RegistryProfiles[profileName] ELSE [undefined |-> TRUE]

\* registry.js calculateRouteLength(waypoints), in km
segmentDegrees(p1, p2) ==
    LET dLon == ((p2.lon - p1.lon) * 79) \div 100   \* cos(latitude) ~ 0.79
        dLat == p2.lat - p1.lat
    IN Sqrt(dLon * dLon + dLat * dLat)

RECURSIVE routeLengthFrom(_, _)
routeLengthFrom(waypoints, i) ==
    IF i >= Len(waypoints) THEN 0
    ELSE (segmentDegrees(waypoints[i], waypoints[i + 1]) * 111) \div 100
         + routeLengthFrom(waypoints, i + 1)
calculateRouteLength(waypoints) == routeLengthFrom(waypoints, 1)

\* registry.js getRandomPointOnRoute(waypoints): the cumulative distances
RECURSIVE cumulative(_, _)
cumulative(waypoints, n) ==
    IF n = 0 THEN <<0>>
    ELSE LET c == cumulative(waypoints, n - 1)
         IN Append(c, c[n] + segmentDegrees(waypoints[n], waypoints[n + 1]))

\* getRandomPointOnRoute: "Find which segment contains this distance", with
\* targetDist = r / RandDen * totalLength
RECURSIVE findSegment(_, _, _, _)
findSegment(distances, r, totalLength, i) ==
    IF i > Len(distances) THEN 0
    ELSE IF distances[i] * RandDen >= r * totalLength THEN i - 2
    ELSE findSegment(distances, r, totalLength, i + 1)

\* getRandomPointOnRoute: "Interpolate within segment", t = tNum / tDen
lerpGeo(p1, p2, tNum, tDen) ==
    geoToWorld(p1.lon + (tNum * (p2.lon - p1.lon)) \div tDen,
               p1.lat + (tNum * (p2.lat - p1.lat)) \div tDen)

\* getRandomPointOnRoute: t of the segment [segmentStart, segmentEnd], 0 for
\* a segment of no length
interpolate(p1, p2, segmentStart, segmentEnd, r, totalLength) ==
    IF segmentEnd > segmentStart
    THEN lerpGeo(p1, p2, r * totalLength - segmentStart * RandDen,
                 (segmentEnd - segmentStart) * RandDen)
    ELSE lerpGeo(p1, p2, 0, 1)

\* getRandomPointOnRoute: the point of segment segmentIndex
pointInSegment(waypoints, distances, segmentIndex, r) ==
    interpolate(waypoints[segmentIndex + 1], waypoints[segmentIndex + 2],
                distances[segmentIndex + 1], distances[segmentIndex + 2],
                r, distances[Len(distances)])

\* getRandomPointOnRoute: "Pick random distance along route"
pointAtDistance_ByIndex(waypoints, distances, r) ==
    pointInSegment(waypoints, distances, (r * (Len(distances) - 1)) \div RandDen, r)
pointAtDistance(waypoints, distances, r) ==
    pointInSegment(waypoints, distances,
                   findSegment(distances, r, distances[Len(distances)], 2), r)

\* getRandomPointOnRoute(waypoints) for a Math.random() of r / RandDen;
\* [throws |-> TRUE] stands for the TypeError of waypoints[0].lon on an
\* empty route.
getRandomPointOnRoute(waypoints, r) ==
    IF Len(waypoints) = 0 THEN [throws |-> TRUE]
    ELSE IF Len(waypoints) < 2 THEN geoToWorld(waypoints[1].lon, waypoints[1].lat)
    ELSE pointAtDistance(waypoints, cumulative(waypoints, Len(waypoints) - 1), r)

-----------------------------------------------------------------------------
(* map.js: terrain height.  elevationData is null until the GeoTIFF that   *)
(* initMap has asked for is loaded; until then getTerrainHeight is the     *)
(* procedural fallback, sampled on squares of 0.05 km: cx and cz are x and *)
(* z in units of 0.05 km, and the heights are in length units.             *)

\* getTerrainHeight: "East Bay hills", 5 km < x < 35 km
eastBayHills(cx, cz) ==
    IF cx > 100 /\ cx < 700
    THEN (4800 * Max(0, 300 - Abs(cx - 400)) * (100 + sinTenth(cz))) \div (300 * 200)
    ELSE 0

\* getTerrainHeight: "Marin headlands"
marinHeadlands(cx, cz) ==
    IF cx < -200 /\ cz > 200
    THEN (6000 * Max(0, 400 - Abs(cx + 500)) * Max(0, 400 - Abs(cz - 500))) \div (400 * 400)
    ELSE 0

\* getTerrainHeight: "Santa Cruz mountains"
santaCruz(cx, cz) ==
    IF cx < 100 /\ cz < -400
    THEN (7200 * Max(0, 400 - Abs(cx + 200)) * Max(0, 500 - Abs(cz + 800))) \div (400 * 500)
    ELSE 0

\* getTerrainHeight: "Bay depression"; distFromBay = Sqrt(..) / 1500
bayDepression(cx, cz) ==
    IF 25 * cx * cx + 9 * cz * cz < 1500 * 1500
    THEN (3600 * (1500 - Sqrt(25 * cx * cx + 9 * cz * cz))) \div 1500
    ELSE 0

\* getTerrainHeight: the height of the square (cx, cz)
proceduralHeight(cx, cz) ==
    Max(0, eastBayHills(cx, cz) + marinHeadlands(cx, cz) + santaCruz(cx, cz)
           - bayDepression(cx, cz))

\* map.js "let elevationData = null"
NoElevation == [width |-> 0, height |-> 0, data |-> <<>>]

\* sampleElevation: clampedU and clampedV for the world coordinate c along
\* an axis of length size, in thousandths
clampedUV(c, size) == Max(0, Min(1000, ((c + size \div 2) * 1000) \div size))

\* sampleElevation: getElev(x, z) for pixel indices from 0, in metres
getElev(raster, x, z) ==
    IF raster.data[z * raster.width + x + 1] > -1000
    THEN raster.data[z * raster.width + x + 1]
    ELSE 0

\* sampleElevation: e0 * (1 - f) + e1 * f for f in thousandths
lerp(e0, e1, f) == (e0 * (1000 - f) + e1 * f) \div 1000

\* sampleElevation: "Bilinear interpolation" at the pixel coordinates px and
\* py, in thousandths of a pixel
bilinear(raster, px, py) ==
    lerp(lerp(getElev(raster, px \div 1000, py \div 1000),
              getElev(raster, Min(px \div 1000 + 1, raster.width - 1), py \div 1000),
              px % 1000),
         lerp(getElev(raster, px \div 1000, Min(py \div 1000 + 1, raster.height - 1)),
              getElev(raster, Min(px \div 1000 + 1, raster.width - 1),
                      Min(py \div 1000 + 1, raster.height - 1)),
              px % 1000),
         py % 1000)

\* sampleElevation: smoothstep(Math.min(1, Math.max(0, d / blendDist))) for a
\* distance d to an edge of the delta region in 0.0001 degrees, in thousandths
smoothstep(d) ==
    (Max(0, Min(1000, d)) * Max(0, Min(1000, d)) * (3000 - 2 * Max(0, Min(1000, d))))
      \div 1000000

\* sampleElevation: "Apply delta basin elevation boost", 1% of maxHeight
\* times the blend factor; lon and lat are offsets from GEO_BOUNDS.lonMin and
\* GEO_BOUNDS.latMin in 0.0001 degrees
deltaBoost(lon, lat) ==
    IF lon >= 12352 /\ lon <= 18352 /\ lat >= 3175 /\ lat <= 13175
    THEN (300 * ((((smoothstep(lon - 12352) * smoothstep(18352 - lon)) \div 1000)
                   * ((smoothstep(lat - 3175) * smoothstep(13175 - lat)) \div 1000))
                  \div 1000)) \div 1000
    ELSE 0

\* map.js sampleElevation(worldX, worldZ) over the loaded raster: the
\* elevation in metres times verticalScale (0.008), plus the boost
sampleElevation(raster, worldX, worldZ) ==
    (bilinear(raster,
              clampedUV(worldX, MAP_BOUNDS.width) * (raster.width - 1),
              clampedUV(worldZ, MAP_BOUNDS.depth) * (raster.height - 1)) * 48) \div 5
      + deltaBoost((clampedUV(worldX, MAP_BOUNDS.width) * 17194) \div 1000,
                   12054 - (clampedUV(worldZ, MAP_BOUNDS.depth) * 12054) \div 1000)

\* map.js getTerrainHeight(x, z)
getTerrainHeight(x, z) ==
    IF elevationData # NoElevation THEN sampleElevation(elevationData, x, z)
    ELSE proceduralHeight(x \div 60, z \div 60)

-----------------------------------------------------------------------------
(* polluters.js: the emission generator                                    *)

\* Denominator of a scaled rate: base rate (tenths) * scale (tenths) *
\* emissionRate (ten-thousandths) * dt (1/60 s).
RateDen == 10 * 10 * 10000 * 60

\* isPollutantEnabled(pollutantId, settings)
isPollutantEnabled_Always(pollutantId, st) == TRUE
isPollutantEnabled(pollutantId, st) ==
    CASE pollutantId = "PM25" -> st.enablePM25 # FALSE
      [] pollutantId = "VOC" -> st.enableVOC # FALSE
      [] pollutantId = "OZONE" -> st.enableOzone # FALSE
      [] OTHER -> TRUE

\* stochasticCount(rate) for rate = rateNum / RateDen and Math.random() = r / RandDen
stochasticCount(rateNum, r) ==
    LET whole == rateNum \div RateDen
        frac == rateNum - whole * RateDen
    IN whole + (IF r * RateDen < frac * RandDen THEN 1 ELSE 0)

\* (Math.random() - 0.5) * spread
jitter(r, spread) == ((2 * r - RandDen) * spread) \div (2 * RandDen)

\* a || b of JavaScript on numbers
OrDefault(a, b) == IF a = 0 THEN b ELSE a

\* Object.entries(rates): the pollutant ids that have a rate, in key order
RateEntries(rates) == SelectSeq(PollutantIds, LAMBDA id : id \in DOMAIN rates)

\* emitFromPoint: "Generate particles with position spread", particle i of
\* a pollutant; its draws are k0, k0 + 1, k0 + 2 of the tape
pointEvent(emitter, pollutantId, spread, tape, k0) ==
    [type |-> pollutantId, emitterId |-> emitter.id,
     x |-> emitter.worldPosition.x + jitter(draw(tape, k0), spread),
     y |-> emitter.worldPosition.y + (draw(tape, k0 + 1) * 600) \div RandDen,
     z |-> emitter.worldPosition.z + jitter(draw(tape, k0 + 2), spread)]

\* emitFromPoint: the for loop over count
pointEvents(emitter, pollutantId, count, tape, k) ==
    [i \in 1..count |->
       pointEvent(emitter, pollutantId, OrDefault(emitter.profileData.spread, 1200),
                  tape, k + 3 * (i - 1))]

\* emitFromPoint: "Skip if scale is 0"
pointSkipsScale(emitter) == emitter.scale = 0

\* emitFromPoint: "Calculate particles to emit this step"
pointScaledRate(baseRate, emitter, rateMultiplier) ==
    baseRate * emitter.scale * rateMultiplier

\* emitFromPoint: one pollutant that is not skipped.  out is [events, k]:
\* the particles pushed so far and the number of Math.random() calls made
pointEmit(emitter, pollutantId, count, tape, out) ==
    [events |-> out.events \o pointEvents(emitter, pollutantId, count, tape, out.k + 1),
     k |-> out.k + 1 + 3 * count]

\* emitFromPoint: "Skip disabled pollutant types" and the zero base rate
pointSkipsPollutant(emitter, pollutantId, st) ==
    \/ ~isPollutantEnabled(pollutantId, st)
    \/ emitter.profileData.emissions[pollutantId] = 0

\* emitFromPoint: the loop over Object.entries(profile.emissions)
RECURSIVE pointLoop(_, _, _, _, _, _)
pointLoop(emitter, rateMultiplier, st, ids, tape, out) ==
    IF ids = <<>> THEN out
    ELSE IF pointSkipsPollutant(emitter, Head(ids), st)
    THEN pointLoop(emitter, rateMultiplier, st, Tail(ids), tape, out)
    ELSE pointLoop(emitter, rateMultiplier, st, Tail(ids), tape,
           pointEmit(emitter, Head(ids),
                     stochasticCount(
                        pointScaledRate(emitter.profileData.emissions[Head(ids)],
                                        emitter, rateMultiplier),
                        draw(tape, out.k)),
                     tape, out))

\* emitFromPoint(emitter, rateMultiplier, settings)
emitFromPoint(emitter, rateMultiplier, st, tape, out) ==
    IF "emissions" \notin DOMAIN emitter.profileData THEN out
    ELSE IF pointSkipsScale(emitter) THEN out
    ELSE pointLoop(emitter, rateMultiplier, st,
                   RateEntries(emitter.profileData.emissions), tape, out)

\* emitFromLine: "Generate particles at random positions along the route",
\* one particle at the route point `point`; [throws |-> TRUE] where the code
\* throws
lineEvent(emitter, pollutantId, point, spread, height, tape, k0) ==
    IF "throws" \in DOMAIN point THEN [throws |-> TRUE]
    ELSE [type |-> pollutantId, emitterId |-> emitter.id,
          x |-> point.x + jitter(draw(tape, k0 + 1), spread),
          y |-> getTerrainHeight(point.x, point.z) + height
                + (draw(tape, k0 + 2) * 360) \div RandDen,
          z |-> point.z + jitter(draw(tape, k0 + 3), spread)]

\* emitFromLine: the for loop over count
lineEvents(emitter, pollutantId, count, tape, k) ==
    [i \in 1..count |->
       lineEvent(emitter, pollutantId,
                 getRandomPointOnRoute(emitter.waypoints, draw(tape, k + 4 * (i - 1))),
                 OrDefault(emitter.profileData.spread, 600),
                 OrDefault(emitter.profileData.height, 600),
                 tape, k + 4 * (i - 1))]

\* emitFromLine: "Skip if scale is 0 or route has no length"
lineSkips(emitter) == emitter.scale = 0 \/ emitter.length = 0

\* emitFromLine: "Scale by route length and emitter scale"
lineScaledRate(baseRatePerKm, emitter, rateMultiplier) ==
    baseRatePerKm * emitter.length * emitter.scale * rateMultiplier

\* emitFromLine: one pollutant that is not skipped
lineEmit(emitter, pollutantId, count, tape, out) ==
    [events |-> out.events \o lineEvents(emitter, pollutantId, count, tape, out.k + 1),
     k |-> out.k + 1 + 4 * count]

\* emitFromLine: "Skip disabled pollutant types" and the zero base rate
lineSkipsPollutant(emitter, pollutantId, st) ==
    \/ ~isPollutantEnabled(pollutantId, st)
    \/ emitter.profileData.emissionsPerKm[pollutantId] = 0

\* emitFromLine: the loop over Object.entries(profile.emissionsPerKm)
RECURSIVE lineLoop(_, _, _, _, _, _)
lineLoop(emitter, rateMultiplier, st, ids, tape, out) ==
    IF ids = <<>> THEN out
    ELSE IF lineSkipsPollutant(emitter, Head(ids), st)
    THEN lineLoop(emitter, rateMultiplier, st, Tail(ids), tape, out)
    ELSE lineLoop(emitter, rateMultiplier, st, Tail(ids), tape,
           lineEmit(emitter, Head(ids),
                    stochasticCount(
                       lineScaledRate(emitter.profileData.emissionsPerKm[Head(ids)],
                                      emitter, rateMultiplier),
                       draw(tape, out.k)),
                    tape, out))

\* emitFromLine(emitter, rateMultiplier, settings)
emitFromLine(emitter, rateMultiplier, st, tape, out) ==
    IF "emissionsPerKm" \notin DOMAIN emitter.profileData THEN out
    ELSE IF lineSkips(emitter) THEN out
    ELSE lineLoop(emitter, rateMultiplier, st,
                  RateEntries(emitter.profileData.emissionsPerKm), tape, out)

\* emit(): the loop over the point emitters, then over the line emitters
RECURSIVE emitLoop(_, _, _, _, _, _)
emitLoop(points, lines, rateMultiplier, st, tape, out) ==
    IF points # <<>>
    THEN emitLoop(Tail(points), lines, rateMultiplier, st, tape,
                  emitFromPoint(Head(points), rateMultiplier, st, tape, out))
    ELSE IF lines # <<>>
    THEN emitLoop(points, Tail(lines), rateMultiplier, st, tape,
                  emitFromLine(Head(lines), rateMultiplier, st, tape, out))
    ELSE out

\* The outcome of a call of emit(): one that throws returns no events; k is
\* the number of Math.random() calls it made
emitResult(out) ==
    IF \E i \in 1..Len(out.events) : "throws" \in DOMAIN out.events[i]
    THEN [events |-> <<>>, threw |-> TRUE, k |-> out.k]
    ELSE [events |-> out.events, threw |-> FALSE, k |-> out.k]

\* emit(dt, settings) over the processed emitters: [events, threw, k]
emit(points, lines, dt, st, tape) ==
    emitResult(emitLoop(points, lines, st.emissionRate * dt, st, tape,
                        [events |-> <<>>, k |-> 0]))

\* initPolluters: "Process point emitters"; an emitter with an unknown
\* profile is dropped with a warning
processedPoint(emitter, profile, worldCoords, terrainHeight) ==
    [id |-> emitter.id, profile |-> emitter.profile, scale |-> emitter.scale,
     coords |-> emitter.coords, profileData |-> profile,
     worldPosition |-> [x |-> worldCoords.x,
                        y |-> terrainHeight + OrDefault(profile.height, 600)
                              + profile.plumeRise,
                        z |-> worldCoords.z],
     terrainHeight |-> terrainHeight]

terrainAt(worldCoords) == getTerrainHeight(worldCoords.x, worldCoords.z)

processPoint(emitter) ==
    processedPoint(emitter, getProfile(emitter.profile),
                   geoToWorld(emitter.coords.lon, emitter.coords.lat),
                   terrainAt(geoToWorld(emitter.coords.lon, emitter.coords.lat)))

\* initPolluters: "Process line emitters"
processLine(emitter) ==
    [id |-> emitter.id, profile |-> emitter.profile, scale |-> emitter.scale,
     waypoints |-> emitter.waypoints, profileData |-> getProfile(emitter.profile),
     length |-> calculateRouteLength(emitter.waypoints)]

KnownProfile(emitter) == "undefined" \notin DOMAIN getProfile(emitter.profile)

\* initPolluters(map): [pointEmitters, lineEmitters]
initPolluters(pointRegistry, lineRegistry) ==
    LET points == SelectSeq(pointRegistry, KnownProfile)
        lines == SelectSeq(lineRegistry, KnownProfile)
    IN [pointEmitters |-> [i \in 1..Len(points) |-> processPoint(points[i])],
        lineEmitters |-> [i \in 1..Len(lines) |-> processLine(lines[i])]]

\* orchestrator.js PARTICLE_CONFIG.emissionScale, 0.5, in tenths
emissionScale == 5

\* stepOrchestrator: "Get new emissions (scaled down for performance)";
\* the emissionRate of scaledSettings is in ten-thousandths
scaledSettings_Unscaled(st) == [st EXCEPT !.emissionRate = st.emissionRate * 10]
scaledSettings(st) == [st EXCEPT !.emissionRate = st.emissionRate * emissionScale]

-----------------------------------------------------------------------------
(* traffic.js: the velocity field.  Velocities are in units of 0.05 km/s,  *)
(* so that a velocity of 1 moves a particle one length unit per step of    *)
(* 1/60 s.  windSpeed is in the same unit, turbulence in tenths, t in      *)
(* steps of 1/60 s.                                                        *)

\* Math.sin and Math.cos of settings.windDirection degrees, in hundredths
sinDeg(deg) ==
    CASE deg = 0 -> 0 [] deg = 90 -> 100 [] deg = 120 -> 87
      [] deg = 180 -> 0 [] deg = 270 -> -100
cosDeg(deg) ==
    CASE deg = 0 -> 100 [] deg = 90 -> 0 [] deg = 120 -> -50
      [] deg = 180 -> -100 [] deg = 270 -> 0

\* The heights y at which Math.log(Math.max(1, y + 1)) / Math.log(10)
\* reaches 0.1, 0.2, ... : (10^(k/10) - 1) km
LogThresholds ==
    <<311, 702, 1194, 1814, 2595, 3577, 4814, 6371, 8332, 10800, 13907,
      17819, 22743, 28943, 36747, 46573, 58943>>

\* heightFactor, in tenths
heightFactor(y) == Cardinality({k \in DOMAIN LogThresholds : y >= LogThresholds[k]})

Sign(n) == IF n > 0 THEN 1 ELSE IF n < 0 THEN -1 ELSE 0

\* "1. Base prevailing wind" and "2. Height-dependent wind shear"
prevailing(y, st) ==
    [x |-> (sinDeg(st.windDirection) * st.windSpeed * (50 + 7 * heightFactor(y)))
             \div 10000,
     y |-> 0,
     z |-> (cosDeg(st.windDirection) * st.windSpeed * (50 + 7 * heightFactor(y)))
             \div 10000,
     nan |-> FALSE]

\* dayPhase runs over 120 s = 7200 steps; Math.sin(dayPhase * Math.PI * 2)
\* and Math.sin(dayPhase * Math.PI), in hundredths
sinDay(t) == sinOfPeriod(t % 7200, 7200)
sinHalfDay(t) == sinOfPeriod(t % 7200, 14400)

\* "3. Sea breeze effect"
seaBreeze(t, st, v) ==
    [v EXCEPT !.x = @ + (sinDay(t) * 9 * st.windSpeed) \div 10000]

\* "East Bay hills deflect wind northward/southward"
deflect(x, y, z, st, h, v) ==
    IF y < h + 6000 /\ x > 12000 /\ x < 42000
    THEN [v EXCEPT !.z = @ + Sign(z) * ((15 * st.windSpeed * (h + 6000 - y))
                                          \div (100 * (h + 6000)))]
    ELSE v

\* "Channeling through Golden Gate"
channel(x, y, z, h, v) ==
    IF y < h + 6000 /\ x < -12000 /\ z > 0 /\ z < 24000
    THEN [v EXCEPT !.x = (@ * 13) \div 10]
    ELSE v

\* "Updraft near hills"
updraft(y, h, v) ==
    IF y < h + 12000
    THEN [v EXCEPT !.y = @ + (10 * h * (h + 12000 - y)) \div (6000 * (h + 12000))]
    ELSE v

\* "4. Terrain effects": mapData is set by initTraffic; h is the terrain
\* height at (x, z)
terrainEffects(x, y, z, st, h, v) ==
    updraft(y, h, channel(x, y, z, h, deflect(x, y, z, st, h, v)))

\* distFromBayCenter, to two length units, for a point within 30 km of both
\* axes
distFromBayCenter(x, z) ==
    Max(1, 2 * Sqrt((x \div 2) * (x \div 2) + (z \div 2) * (z \div 2)))

\* (c / distFromBayCenter) * convergeFactor * windSpeed
pullToward(c, dist, t, st) ==
    (((((((c * 100) \div dist) * (36000 - dist)) \div 36000) * sinHalfDay(t))
        \div 100) * st.windSpeed) \div 1000

pull(x, z, dist, t, st, v) ==
    IF dist < 36000
    THEN [v EXCEPT !.x = @ - pullToward(x, dist, t, st),
                   !.z = @ - pullToward(z, dist, t, st),
                   !.y = @ + ((36000 - dist) * sinHalfDay(t)) \div 3600000]
    ELSE v

\* "5. Convergence/divergence near bay": at the bay center x / 0 is NaN
converge(x, z, t, st, v) ==
    IF x = 0 /\ z = 0 THEN [v EXCEPT !.nan = TRUE]
    ELSE IF Abs(x) < 36000 /\ Abs(z) < 36000
         THEN pull(x, z, distFromBayCenter(x, z), t, st, v)
         ELSE v

\* _noise.x * turbScale for the Math.random() value r / RandDen; the
\* vertical component is scaled by 0.3 (tenths = 3)
noise(r, st, tenths) ==
    ((2 * r - RandDen) * st.turbulence * st.windSpeed * tenths)
      \div (RandDen * 200)

\* "6. Turbulent mixing": three Math.random() calls when turbulence > 0
turbulent(st, tape, k, v) ==
    IF st.turbulence > 0
    THEN [v EXCEPT !.x = @ + noise(draw(tape, k), st, 10),
                   !.y = @ + noise(draw(tape, k + 1), st, 3),
                   !.z = @ + noise(draw(tape, k + 2), st, 10)]
    ELSE v

noiseDraws(st) == IF st.turbulence > 0 THEN 3 ELSE 0

\* "7. Buoyancy"
buoyancy(y, v) ==
    IF y < 6000 THEN [v EXCEPT !.y = @ + (10 * (6000 - y)) \div 6000] ELSE v

\* getVelocityAt(x, y, z, t, settings): [x, y, z, nan], nan telling that the
\* horizontal components are NaN
getVelocityAt(x, y, z, t, st, tape, k) ==
    buoyancy(y,
      turbulent(st, tape, k,
        converge(x, z, t, st,
          terrainEffects(x, y, z, st, getTerrainHeight(x, z),
            seaBreeze(t, st, prevailing(y, st))))))

-----------------------------------------------------------------------------
(* orchestrator.js: the particle engine.  Times are in steps of 1/60 s.    *)

\* polluters.js POLLUTANT_TYPES: settlingRate in velocity units,
\* disperseRate in tenths
POLLUTANT_TYPES ==
    [PM25 |-> [settlingRate |-> 3, disperseRate |-> 8],
     VOC |-> [settlingRate |-> 0, disperseRate |-> 15],
     OZONE |-> [settlingRate |-> 0, disperseRate |-> 12]]

getPollutantConfig(pollutantId) == POLLUTANT_TYPES[pollutantId]

\* PARTICLE_CONFIG.maxParticles, scaled down from 12000
maxParticles == 4
\* PARTICLE_CONFIG.lifetime, 45 s
lifetime == 2700
\* MAX_INSTANCES, the prisms of one species, scaled down from 1500
MAX_INSTANCES == 2

NoParticles == [id \in PollutantSet |-> <<>>]

\* addParticle: "Calculate total particles across all types"
totalParticles(parts) ==
    Len(parts["PM25"]) + Len(parts["VOC"]) + Len(parts["OZONE"])

\* addParticle: "Enforce global max"
atCapacity_Above(total) == total > maxParticles
atCapacity(total) == total >= maxParticles

RECURSIVE maxTypeFrom(_, _, _, _)
\* addParticle: the forEach over Object.entries(particles), from entry i
maxTypeFrom(parts, i, maxType, maxCount) ==
    IF i > Len(PollutantIds) THEN maxType
    ELSE IF Len(parts[PollutantIds[i]]) > maxCount
         THEN maxTypeFrom(parts, i + 1, PollutantIds[i], Len(parts[PollutantIds[i]]))
         ELSE maxTypeFrom(parts, i + 1, maxType, maxCount)

\* addParticle: "Find the type with the most particles"
findMaxType_Own(parts, pollutantId) == pollutantId
findMaxType(parts, pollutantId) ==
    maxTypeFrom(parts, 1, pollutantId, Len(parts[pollutantId]))

\* Array.prototype.shift()
shift(arr) == IF arr = <<>> THEN arr ELSE Tail(arr)

\* addParticle: the particle pushed; nan tells that x and z are NaN
newParticle(x, y, z) ==
    [x |-> x, y |-> y, z |-> z, age |-> 0, mass |-> 1, nan |-> FALSE]

\* addParticle(pollutantId, x, y, z): particles[maxType].shift() at the
\* cap, then particleArray.push(...)
addParticle(parts, pollutantId, x, y, z) ==
    IF pollutantId \notin DOMAIN parts THEN parts
    ELSE [(IF atCapacity(totalParticles(parts))
           THEN [parts EXCEPT ![findMaxType(parts, pollutantId)] = shift(@)]
           ELSE parts)
            EXCEPT ![pollutantId] = Append(@, newParticle(x, y, z))]

\* The velocity at a particle; one whose x and z are NaN meets no condition
\* on x and z, like a point over flat ground far from the hills and the bay
velocityAt(p, st, tape, k) ==
    IF p.nan THEN getVelocityAt(0, p.y, 48000, 0, st, tape, k)
    ELSE getVelocityAt(p.x, p.y, p.z, 0, st, tape, k)

\* "Apply advection (transport by wind)"
advect(p, v, dt) ==
    IF p.nan \/ v.nan
    THEN [p EXCEPT !.x = 0, !.z = 0, !.y = @ + v.y * dt, !.nan = TRUE]
    ELSE [p EXCEPT !.x = @ + v.x * dt, !.y = @ + v.y * dt, !.z = @ + v.z * dt]

\* (Math.random() - 0.5) * disperseAmount * 2 / den
disperseStep(r, config, st, dt, den) ==
    ((2 * r - RandDen) * config.disperseRate * st.turbulence * dt)
      \div (RandDen * den)

\* "Apply dispersion (random spreading)": three Math.random() calls
disperse(p, config, st, dt, tape, k) ==
    IF p.nan
    THEN [p EXCEPT !.y = @ + disperseStep(draw(tape, k + 1), config, st, dt, 10)]
    ELSE [p EXCEPT !.x = @ + disperseStep(draw(tape, k), config, st, dt, 5),
                   !.y = @ + disperseStep(draw(tape, k + 1), config, st, dt, 10),
                   !.z = @ + disperseStep(draw(tape, k + 2), config, st, dt, 5)]

\* "Apply settling (for PM)"
settle(p, config, dt) ==
    IF config.settlingRate > 0 THEN [p EXCEPT !.y = @ - config.settlingRate * dt]
    ELSE p

\* The particle after advection, dispersion and settling
moved(p, config, dt, st, tape, k) ==
    settle(disperse(advect(p, velocityAt(p, st, tape, k), dt),
                    config, st, dt, tape, k + noiseDraws(st)),
           config, dt)

\* mapData.getTerrainHeight(p.x, p.z); every comparison with NaN is false
terrainUnder(p) == IF p.nan THEN 0 ELSE getTerrainHeight(p.x, p.z)

\* "Remove if out of bounds": mapData.bounds is MAP_BOUNDS
outOfBounds(p) ==
    \/ ~p.nan /\ Abs(p.x) > MAP_BOUNDS.width \div 2 + 18000
    \/ ~p.nan /\ Abs(p.z) > MAP_BOUNDS.depth \div 2 + 18000
    \/ p.y > 54000
    \/ p.y < -2400

\* "Age particle", "Remove if too old", "Remove if out of bounds"; contact
\* tells whether the particle met the terrain
ageAndCull_CheckBeforeAging(p, dt, contact) ==
    [p |-> [p EXCEPT !.age = @ + dt],
     fate |-> IF p.age > lifetime THEN "expired"
              ELSE IF outOfBounds(p) THEN "culled" ELSE "kept",
     contact |-> contact]
ageAndCull(p, dt, contact) ==
    [p |-> [p EXCEPT !.age = @ + dt],
     fate |-> IF p.age + dt > lifetime THEN "expired"
              ELSE IF outOfBounds(p) THEN "culled" ELSE "kept",
     contact |-> contact]

\* "PM deposits and is removed"
deposits_Never(config) == FALSE
deposits(config) == config.settlingRate > 0

\* "Check terrain collision / deposition" and what follows it, for the
\* moved particle p
collide(p, config, dt) ==
    IF p.y <= terrainUnder(p) + 180
    THEN IF deposits(config)
         THEN [p |-> p, fate |-> "deposited", contact |-> TRUE]
         ELSE ageAndCull([p EXCEPT !.y = terrainUnder(p) + 360], dt, TRUE)
    ELSE ageAndCull(p, dt, FALSE)

\* One iteration of the loop of updateParticlePhysics
integrate(p, config, dt, st, tape, k) ==
    collide(moved(p, config, dt, st, tape, k), config, dt)

\* The loop's state after an iteration with outcome res
afterIteration(out, pollutantId, res, st) ==
    [kept |-> IF res.fate = "kept" THEN <<res.p>> \o out.kept ELSE out.kept,
     k |-> out.k + noiseDraws(st) + 3,
     touched |-> IF res.contact
                 THEN Append(out.touched,
                             [type |-> pollutantId, fate |-> res.fate,
                              p |-> res.p])
                 ELSE out.touched]

RECURSIVE physicsLoop(_, _, _, _, _, _, _)
\* updateParticlePhysics: "Process in reverse for safe removal", from index i
physicsLoop(pool, i, pollutantId, dt, st, tape, out) ==
    IF i = 0 THEN out
    ELSE physicsLoop(pool, i - 1, pollutantId, dt, st, tape,
           afterIteration(out, pollutantId,
                          integrate(pool[i], getPollutantConfig(pollutantId),
                                    dt, st, tape, out.k),
                          st))

\* updateParticlePhysics(pollutantId, dt, settings): the particles kept, the
\* number of Math.random() calls so far, the particles that met the terrain
updateParticlePhysics(parts, pollutantId, dt, st, tape, k) ==
    physicsLoop(parts[pollutantId], Len(parts[pollutantId]), pollutantId, dt,
                st, tape, [kept |-> <<>>, k |-> k, touched |-> <<>>])

\* worldToCell(x, y, z) with GRID_CONFIG: minX -80 km, minY 0, minZ -72 km,
\* cells of 2.5 x 3.0 x 2.5 km; Math.floor(NaN) is NaN
worldToCell(p) ==
    [cellX |-> IF p.nan THEN 0 ELSE (p.x + 96000) \div 3000,
     cellY |-> p.y \div 3600,
     cellZ |-> IF p.nan THEN 0 ELSE (p.z + 86400) \div 3000,
     nan |-> p.nan]

\* cellKey(cellX, cellY, cellZ)
cellKey(cell) == <<cell.cellX, cell.cellY, cell.cellZ, cell.nan>>

\* binParticlesToGrid: "Initialize cell data"
newCell(c) ==
    [cellX |-> c.cellX, cellY |-> c.cellY, cellZ |-> c.cellZ, nan |-> c.nan,
     count |-> 0, totalAge |-> 0, totalMass |-> 0]

\* binParticlesToGrid: cell.count++
countAfter_Overwrite(count) == 1
countAfter(count) == count + 1

accumulate_LastAge(cell, p) ==
    [cell EXCEPT !.count = countAfter(@), !.totalAge = p.age,
                 !.totalMass = @ + p.mass]
accumulate(cell, p) ==
    [cell EXCEPT !.count = countAfter(@), !.totalAge = @ + p.age,
                 !.totalMass = @ + p.mass]

\* cellMap.has(key) / cellMap.get(key): the index of the cell, 0 if none
cellIndex(cells, c) ==
    IF \E i \in 1..Len(cells) : cellKey(cells[i]) = cellKey(c)
    THEN CHOOSE i \in 1..Len(cells) : cellKey(cells[i]) = cellKey(c)
    ELSE 0

\* binParticlesToGrid: the body of particleArray.forEach
binParticle(cells, p) ==
    IF cellIndex(cells, worldToCell(p)) = 0
    THEN Append(cells, accumulate(newCell(worldToCell(p)), p))
    ELSE [cells EXCEPT ![cellIndex(cells, worldToCell(p))] = accumulate(@, p)]

RECURSIVE binPool(_, _, _)
\* binParticlesToGrid: particleArray.forEach, from index i
binPool(pool, i, cells) ==
    IF i > Len(pool) THEN cells
    ELSE binPool(pool, i + 1, binParticle(cells, pool[i]))

\* binParticlesToGrid()
binParticlesToGrid(parts) == [id \in PollutantSet |-> binPool(parts[id], 1, <<>>)]

\* orchestrator.js GRID_CONFIG, "Prism appearance" and "Concentration
\* thresholds"; the sizes are in thousandths
GRID_CONFIG ==
    [basePrismSize |-> 600, maxPrismSize |-> 2200, lowThreshold |-> 1,
     highThreshold |-> 20]

\* updateInstancedPrisms: "Smooth interpolation between low and high
\* thresholds", Math.sqrt(t) for t = above / span, times the range of sizes
easing_Linear(above, span, range) == (range * above) \div span
easing(above, span, range) == Sqrt((range * range * above) \div span)

\* updateInstancedPrisms: "Calculate prism size based on concentration"
sizeFactor(concentration) ==
    IF concentration <= GRID_CONFIG.lowThreshold THEN GRID_CONFIG.basePrismSize
    ELSE IF concentration >= GRID_CONFIG.highThreshold THEN GRID_CONFIG.maxPrismSize
    ELSE GRID_CONFIG.basePrismSize
           + easing(concentration - GRID_CONFIG.lowThreshold,
                    GRID_CONFIG.highThreshold - GRID_CONFIG.lowThreshold,
                    GRID_CONFIG.maxPrismSize - GRID_CONFIG.basePrismSize)

\* orchestrator.js: an instanced mesh that shows no prism
NoInstances == [count |-> 0, instances |-> <<>>, sizes |-> <<>>]

\* updateInstancedPrisms: "if (instanceIndex >= MAX_INSTANCES) return"
capReached_Above(instanceIndex) == instanceIndex > MAX_INSTANCES
capReached(instanceIndex) == instanceIndex >= MAX_INSTANCES

\* updateInstancedPrisms: the body of cellMap.forEach for one cell;
\* mesh.count is the instanceIndex so far, the instance is named by the
\* key of the cell it is placed at, and its size is sizeFactor before the
\* random variation of 10%
setMatrixAt(mesh, cell) ==
    IF capReached(mesh.count) THEN mesh
    ELSE [count |-> mesh.count + 1,
          instances |-> Append(mesh.instances, cellKey(cell)),
          sizes |-> Append(mesh.sizes, sizeFactor(cell.count))]

RECURSIVE prismLoop(_, _, _)
\* updateInstancedPrisms: cellMap.forEach, from the i-th cell inserted
prismLoop(cells, i, mesh) ==
    IF i > Len(cells) THEN mesh
    ELSE prismLoop(cells, i + 1, setMatrixAt(mesh, cells[i]))

\* updateInstancedPrisms(): of every species, mesh.count and the instances
\* below it, which are those the renderer draws
updateInstancedPrisms(cells) ==
    [id \in PollutantSet |-> prismLoop(cells[id], 1, NoInstances)]

\* The order of the statements of stepOrchestrator
phaseAfter_BinBeforePhysics(phase) ==
    CASE phase = "emit" -> "inject" [] phase = "inject" -> "bin"
      [] phase = "bin" -> "physics" [] phase = "physics" -> "prisms"
      [] OTHER -> "idle"
phaseAfter(phase) ==
    CASE phase = "emit" -> "inject" [] phase = "inject" -> "physics"
      [] phase = "physics" -> "bin" [] phase = "bin" -> "prisms"
      [] OTHER -> "idle"

\* The iterations of a statement: emissions.forEach, Object.keys(particles)
\* .forEach, and one for the others
iterations(phase, nEvents) ==
    CASE phase = "inject" -> nEvents
      [] phase = "physics" -> Len(PollutantIds)
      [] OTHER -> 1

RECURSIVE enter(_, _)
enter(phase, nEvents) ==
    IF phase # "idle" /\ iterations(phase, nEvents) = 0
    THEN enter(phaseAfter(phase), nEvents)
    ELSE [phase |-> phase, i |-> 1]

\* The position after iteration at.i of statement at.phase
stepTo(at, nEvents) ==
    IF at.i < iterations(at.phase, nEvents) THEN [at EXCEPT !.i = @ + 1]
    ELSE enter(phaseAfter(at.phase), nEvents)

\* The state of orchestrator.js that a step works on; k counts the
\* Math.random() calls made, and executed the calls of stepOrchestrator
\* that went past "if (paused) return" and ran the five phases
engineState(parts, cells, meshes) ==
    [particles |-> parts, gridCells |-> cells, instancedMeshes |-> meshes,
     threw |-> FALSE, k |-> 0, executed |-> 0]

RECURSIVE injectFrom(_, _, _)
\* stepOrchestrator: "2. Inject new particles", emissions.forEach from the
\* i-th event
injectFrom(parts, events, i) ==
    IF i > Len(events) THEN parts
    ELSE injectFrom(addParticle(parts, events[i].type, events[i].x, events[i].y,
                                events[i].z),
                    events, i + 1)

RECURSIVE physicsFrom(_, _, _, _, _, _)
RECURSIVE physicsOf(_, _, _, _, _, _)
\* stepOrchestrator: "3. Update particle physics", Object.keys(particles)
\* .forEach from the i-th species; out is what updateParticlePhysics returned
\* for the species before it
physicsFrom(parts, i, dt, st, tape, out) ==
    IF i > Len(PollutantIds) THEN [particles |-> parts, k |-> out.k]
    ELSE physicsOf(parts, i, dt, st, tape,
                   updateParticlePhysics(parts, PollutantIds[i], dt, st, tape, out.k))
physicsOf(parts, i, dt, st, tape, out) ==
    physicsFrom([parts EXCEPT ![PollutantIds[i]] = out.kept], i + 1, dt, st, tape, out)

\* stepOrchestrator: "4. Bin particles into grid cells" and "5. Update
\* visual representation" for the pools the physics left
binAndDraw(eng, out) ==
    [eng EXCEPT !.particles = out.particles,
                !.gridCells = binParticlesToGrid(out.particles),
                !.instancedMeshes =
                   updateInstancedPrisms(binParticlesToGrid(out.particles)),
                !.k = out.k]

\* stepOrchestrator after "1. Get new emissions" returned e; an exception of
\* emit() leaves the pools as they were
stepAfterEmit(eng, dt, st, tape, e) ==
    IF e.threw THEN [eng EXCEPT !.threw = TRUE, !.k = e.k]
    ELSE binAndDraw(eng, physicsFrom(injectFrom(eng.particles, e.events, 1), 1, dt,
                                     st, tape, e))

\* stepOrchestrator(dt, settings) of orchestrator.js, whole
stepOrchestrator(eng, isPaused, points, lines, dt, st, tape) ==
    IF isPaused THEN eng
    ELSE stepAfterEmit(eng, dt, st, tape,
                       emit(points, lines, dt, scaledSettings(st), tape))

\* resetOrchestrator(): "Clear all particles", "Clear grid", "Update visuals"
resetOrchestrator_KeepsGrid(eng) ==
    [eng EXCEPT !.particles = NoParticles,
                !.instancedMeshes = updateInstancedPrisms(NoParticles)]
resetOrchestrator(eng) ==
    [eng EXCEPT !.particles = NoParticles, !.gridCells = NoParticles,
                !.instancedMeshes = updateInstancedPrisms(NoParticles)]

-----------------------------------------------------------------------------
(* The clock driven by frames and by the HUD                               *)

\* main.js settings, as far as the model reads them
DefaultSettings ==
    [windDirection |-> 120, windSpeed |-> 80, turbulence |-> 3,
     emissionRate |-> 200, enablePM25 |-> TRUE, enableVOC |-> TRUE,
     enableOzone |-> TRUE]

NoCall == [id |-> "", scale |-> 0]

EmitIdle ==
    /\ registry = [points |-> <<>>, lines |-> <<>>]
    /\ processedPointEmitters = <<>>
    /\ processedLineEmitters = <<>>
    /\ lastCall = NoCall
    /\ settings = DefaultSettings
    /\ emissions = <<>>
    /\ emitThrew = FALSE

NoRng == [tape |-> <<>>, k |-> 0]
Idle == [phase |-> "idle", i |-> 1]

NoReset == [clock |-> FALSE, pools |-> FALSE]
NoRun == [n |-> 1, inputs |-> <<>>, pools |-> <<>>, at |-> 0]

AppIdle ==
    /\ elevationData = NoElevation
    /\ appState = [paused |-> FALSE]
    /\ lastReset = NoReset
    /\ run = NoRun

EngineIdle ==
    /\ particles = NoParticles
    /\ gridCells = NoParticles
    /\ paused = FALSE
    /\ instancedMeshes = [id \in PollutantSet |-> NoInstances]
    /\ pc = Idle
    /\ rng = NoRng
    /\ ticks = 0
    /\ tickLog = <<>>
    /\ touched = <<>>

ClockInit ==
    /\ TimeManager = setTimeScale(TimeManagerInit, DefaultTimeScale)
    /\ lastOp = "init"
    /\ lastDt = 0
    /\ lastScale = DefaultTimeScale
    /\ stepsReturned = 0
    /\ EmitIdle
    /\ EngineIdle
    /\ AppIdle

Update(realDeltaTime) ==
    /\ TimeManager.simulationTime < MaxSimSteps * fixedDeltaTime
    /\ TimeManager' = update(TimeManager, realDeltaTime)
    /\ lastOp' = "update"
    /\ lastDt' = realDeltaTime
    /\ stepsReturned' = stepsReturned + TimeManager'.stepsThisFrame
    /\ UNCHANGED <<appVars, lastScale, emitVars, engineVars>>

SetTimeScale(scale) ==
    /\ TimeManager' = setTimeScale(TimeManager, scale)
    /\ lastOp' = "setTimeScale"
    /\ lastScale' = scale
    /\ UNCHANGED <<appVars, lastDt, stepsReturned, emitVars, engineVars>>

SetPaused(p) ==
    /\ TimeManager' = setPaused(TimeManager, p)
    /\ lastOp' = "setPaused"
    /\ UNCHANGED <<appVars, lastDt, lastScale, stepsReturned, emitVars, engineVars>>

Reset ==
    /\ TimeManager' = reset(TimeManager)
    /\ lastOp' = "reset"
    /\ stepsReturned' = 0
    /\ UNCHANGED <<appVars, lastDt, lastScale, emitVars, engineVars>>

ClockNext ==
    \/ \E realDeltaTime \in RealDeltaTimes : Update(realDeltaTime)
    \/ \E scale \in TimeScaleInputs : SetTimeScale(scale)
    \/ \E p \in BOOLEAN : SetPaused(p)
    \/ Reset

ClockSpec == ClockInit /\ [][ClockNext]_vars

-----------------------------------------------------------------------------
(* Properties of the clock                                                 *)

\* C1: after each update() returns, whatever setTimeScale, setPaused and
\* reset calls came between the updates, 0 <= accumulator < fixedDeltaTime.
C1_AccumulatorInvariant ==
    lastOp = "update" =>
        /\ 0 <= TimeManager.accumulator
        /\ TimeManager.accumulator < fixedDeltaTime

\* An update that ran several steps and left a positive remainder.
C1_Witness ==
    /\ lastOp = "update"
    /\ ~TimeManager.paused
    /\ TimeManager.stepsThisFrame >= 2
    /\ TimeManager.accumulator > 0

\* C2: update() never returns more than maxSubSteps steps, and a frame whose
\* scaled time is at least fixedDeltaTime * maxSubSteps (a 10 s frame at
\* timeScale 1.0) returns exactly maxSubSteps.
C2_SpiralOfDeathCap ==
    /\ TimeManager.stepsThisFrame <= maxSubSteps
    /\ (/\ lastOp = "update"
        /\ ~TimeManager.paused
        /\ lastDt * TimeManager.timeScale >= fixedDeltaTime * maxSubSteps)
       => TimeManager.stepsThisFrame = maxSubSteps

\* The 10 s frame at timeScale 1.0: 8 steps, not 600.
C2_Witness ==
    /\ lastOp = "update"
    /\ ~TimeManager.paused
    /\ lastDt = 1200
    /\ TimeManager.timeScale = 10
    /\ TimeManager.stepsThisFrame = maxSubSteps
    /\ TimeManager.accumulator = 0

\* C10: an update() while paused returns 0 and leaves accumulator and
\* simulationTime as they were, for every realDeltaTime; setPaused leaves
\* them too, and an update() while running consumes no more than the
\* accumulator plus its own frame's scaled time: paused time is not caught up.
C10_PausedClock ==
    [][/\ (TimeManager.paused /\ lastOp' = "update") =>
             /\ TimeManager'.stepsThisFrame = 0
             /\ TimeManager'.accumulator = TimeManager.accumulator
             /\ TimeManager'.simulationTime = TimeManager.simulationTime
       /\ (lastOp' = "setPaused") =>
             /\ TimeManager'.accumulator = TimeManager.accumulator
             /\ TimeManager'.simulationTime = TimeManager.simulationTime
       /\ (~TimeManager.paused /\ lastOp' = "update") =>
             (TimeManager'.simulationTime - TimeManager.simulationTime)
               + TimeManager'.accumulator
             <= TimeManager.accumulator + lastDt' * TimeManager.timeScale]_vars

\* A 10 s frame while paused, with time in the accumulator and on the clock.
C10_Witness ==
    /\ lastOp = "update"
    /\ TimeManager.paused
    /\ lastDt = 1200
    /\ TimeManager.stepsThisFrame = 0
    /\ TimeManager.accumulator > 0
    /\ TimeManager.simulationTime > 0


\* C11 (drain equals floor): an update() while running returns
\* steps = floor(a / fixedDeltaTime) for a = min(accumulator + realDeltaTime
\* * timeScale, fixedDeltaTime * maxSubSteps), leaves the accumulator at
\* a - steps * fixedDeltaTime and adds steps * fixedDeltaTime to
\* simulationTime.
C11_DrainEqualsFloor ==
    [][(~TimeManager.paused /\ lastOp' = "update") =>
         \E a \in {Min(TimeManager.accumulator + lastDt' * TimeManager.timeScale,
                       fixedDeltaTime * maxSubSteps)} :
           /\ TimeManager'.stepsThisFrame = a \div fixedDeltaTime
           /\ TimeManager'.accumulator = a - (a \div fixedDeltaTime) * fixedDeltaTime
           /\ TimeManager'.simulationTime =
                TimeManager.simulationTime + (a \div fixedDeltaTime) * fixedDeltaTime
    ]_vars

\* An update below the cap that ran three steps or more and left a remainder.
C11_Witness ==
    /\ lastOp = "update"
    /\ ~TimeManager.paused
    /\ lastDt < 1200
    /\ TimeManager.stepsThisFrame >= 3
    /\ TimeManager.accumulator > 0

\* C12 (step bound): the steps an update() returns, times fixedDeltaTime,
\* are at most realDeltaTime * timeScale + fixedDeltaTime.
C12_StepBound ==
    lastOp = "update" =>
      TimeManager.stepsThisFrame * fixedDeltaTime
        <= lastDt * TimeManager.timeScale + fixedDeltaTime

\* An update whose steps take more time than its own frame brought: the
\* remainder of earlier frames completed a step.
C12_Witness ==
    /\ lastOp = "update"
    /\ TimeManager.stepsThisFrame >= 2
    /\ TimeManager.stepsThisFrame * fixedDeltaTime > lastDt * TimeManager.timeScale

\* C13 (simulation time): simulationTime is always fixedDeltaTime times the
\* sum of the steps update() has returned since the last init() or reset(),
\* and only reset() makes it smaller.
C13_SimulationTime ==
    /\ [](TimeManager.simulationTime = fixedDeltaTime * stepsReturned)
    /\ [][TimeManager'.simulationTime >= TimeManager.simulationTime
            \/ lastOp' = "reset"]_vars

\* Steps returned by several updates have added up on the clock.
C13_Witness ==
    /\ lastOp = "update"
    /\ TimeManager.stepsThisFrame >= 1
    /\ stepsReturned >= TimeManager.stepsThisFrame + 2
    /\ TimeManager.simulationTime > 0

\* C18 (time-scale clamp): setTimeScale(s) stores min(10, max(0.1, s)), and
\* timeScale always lies in [0.1, 10].
C18_TimeScaleClamp ==
    /\ [](MinTimeScale <= TimeManager.timeScale
           /\ TimeManager.timeScale <= MaxTimeScale)
    /\ [][lastOp' = "setTimeScale" =>
            TimeManager'.timeScale = Min(MaxTimeScale, Max(MinTimeScale, lastScale'))
       ]_vars

\* setTimeScale(0) on a clock that has run: the scale stored is 0.1.
C18_Witness ==
    /\ lastOp = "setTimeScale"
    /\ lastScale = 0
    /\ TimeManager.timeScale = MinTimeScale
    /\ TimeManager.simulationTime > 0

-----------------------------------------------------------------------------
(* The emission generator on its own: registries drawn from a bounded set, *)
(* the engine's emit call of one tick, and the runtime setters             *)

\* stepOrchestrator is called with TimeManager.getDt(), 1/60 s
fixedDt == 1

\* Waypoints of the model's routes (SF Embarcadero, Bay Bridge East, Fairfield)
WaypointA == [lon |-> 74, lat |-> 61]
WaypointB == [lon |-> 82, lat |-> 63]
WaypointC == [lon |-> 110, lat |-> 107]
Routes == {<<>>, <<WaypointA>>, <<WaypointA, WaypointA>>, <<WaypointA, WaypointB>>,
           <<WaypointA, WaypointB, WaypointB, WaypointC>>}

\* registry.js POINT_EMITTERS: the entry 'alameda'
Alameda ==
    [id |-> "alameda", profile |-> "TOWN", scale |-> 10,
     coords |-> [lon |-> 89, lat |-> 58]]

PointRegistries ==
    {<<[id |-> "p1", profile |-> pr, scale |-> sc, coords |-> [lon |-> 72, lat |-> 59]],
       Alameda>> :
       pr \in {"REFINERY_MEDIUM", "MEMORIAL", "UNKNOWN"}, sc \in {12}}

LineRegistries ==
    {<<[id |-> "l1", profile |-> pr, scale |-> 10, waypoints |-> w]>> :
       pr \in {"HIGHWAY_MAJOR", "PER_KM"}, w \in Routes}
      \cup {<<[id |-> "l1", profile |-> "UNKNOWN", scale |-> 10,
               waypoints |-> <<WaypointA, WaypointB>>]>>}

\* Values the HUD gives the settings: emissionRate 0, 0.2, 3.75, 10 and the
\* toggles
SettingsChoices ==
    {[DefaultSettings EXCEPT !.emissionRate = 10000],
     [DefaultSettings EXCEPT !.emissionRate = 3750, !.enablePM25 = FALSE,
                             !.enableOzone = FALSE],
     [DefaultSettings EXCEPT !.emissionRate = 0],
     DefaultSettings}

\* Arguments given to setEmitterScale / setLineEmitterScale: -0.5 and 1.0;
\* setEmitterScale gets the id of a point emitter and that of a line
\* emitter, setLineEmitterScale the id of a line emitter and that of no
\* emitter
ScaleInputs == {-5, 10}
PointCallIds == {"p1", "l1"}
LineCallIds == {"l1", "none"}

\* Array.prototype.find(e => e.id === id): the index of the first match, or 0
findById(emitters, id) ==
    IF \E i \in 1..Len(emitters) : emitters[i].id = id
    THEN CHOOSE i \in 1..Len(emitters) :
           /\ emitters[i].id = id
           /\ \A j \in 1..(i - 1) : emitters[j].id # id
    ELSE 0

\* setEmitterScale(id, scale) / setLineEmitterScale(id, scale) on a list
setScale_Unclamped(emitters, id, scale) ==
    IF findById(emitters, id) = 0 THEN emitters
    ELSE [emitters EXCEPT ![findById(emitters, id)].scale = scale]
setScale(emitters, id, scale) ==
    LET i == findById(emitters, id)
    IN IF i = 0 THEN emitters
       ELSE [emitters EXCEPT ![i].scale = Max(0, scale)]

ClockIdle ==
    /\ TimeManager = setTimeScale(TimeManagerInit, DefaultTimeScale)
    /\ lastDt = 0
    /\ lastScale = DefaultTimeScale
    /\ stepsReturned = 0

EmitInit ==
    /\ ClockIdle
    /\ AppIdle
    /\ \E pr \in PointRegistries, lr \in LineRegistries :
         \E map \in {initPolluters(pr, lr)} :
           /\ registry = [points |-> pr, lines |-> lr]
           /\ processedPointEmitters = map.pointEmitters
           /\ processedLineEmitters = map.lineEmitters
    /\ lastCall = NoCall
    /\ settings = DefaultSettings
    /\ emissions = <<>>
    /\ emitThrew = FALSE
    /\ EngineIdle
    /\ lastOp = "init"

\* stepOrchestrator(dt, settings), step 1: emit(dt, scaledSettings)
EmitStep(tape) ==
    /\ \E e \in {emit(processedPointEmitters, processedLineEmitters, fixedDt,
                      scaledSettings(settings), tape)} :
         /\ emissions' = e.events
         /\ emitThrew' = e.threw
    /\ lastOp' = "emit"
    /\ UNCHANGED <<appVars, clockVars, emitterVars, settings, engineVars>>

\* Object.assign(settings, newSettings) on the fields the model reads
assign(st, newSettings) ==
    [f \in DOMAIN st |-> IF f \in DOMAIN newSettings THEN newSettings[f] ELSE st[f]]

\* main.js onChangeSettings(newSettings); the events of the last step are gone
OnChangeSettings(newSettings) ==
    /\ settings' = assign(settings, newSettings)
    /\ IF "timeScale" \in DOMAIN newSettings
       THEN /\ TimeManager' = setTimeScale(TimeManager, newSettings.timeScale)
            /\ lastScale' = newSettings.timeScale
       ELSE UNCHANGED <<TimeManager, lastScale>>
    /\ emissions' = <<>>
    /\ emitThrew' = FALSE
    /\ lastOp' = "settings"
    /\ UNCHANGED <<appVars, lastDt, stepsReturned, emitterVars, engineVars>>

\* polluters.js setEmitterScale(id, scale)
SetEmitterScale(id, scale) ==
    /\ processedPointEmitters' = setScale(processedPointEmitters, id, scale)
    /\ emissions' = <<>>
    /\ emitThrew' = FALSE
    /\ lastCall' = [id |-> id, scale |-> scale]
    /\ lastOp' = "setEmitterScale"
    /\ UNCHANGED <<appVars, clockVars, registry, processedLineEmitters, settings, engineVars>>

\* polluters.js setLineEmitterScale(id, scale)
SetLineEmitterScale(id, scale) ==
    /\ processedLineEmitters' = setScale(processedLineEmitters, id, scale)
    /\ emissions' = <<>>
    /\ emitThrew' = FALSE
    /\ lastCall' = [id |-> id, scale |-> scale]
    /\ lastOp' = "setLineEmitterScale"
    /\ UNCHANGED <<appVars, clockVars, registry, processedPointEmitters, settings, engineVars>>

EmitNext ==
    \/ \E tape \in Tapes : EmitStep(tape)
    \/ \E newSettings \in SettingsChoices : OnChangeSettings(newSettings)
    \/ \E id \in PointCallIds, scale \in ScaleInputs : SetEmitterScale(id, scale)
    \/ \E id \in LineCallIds, scale \in ScaleInputs : SetLineEmitterScale(id, scale)

EmitSpec == EmitInit /\ [][EmitNext]_vars

-----------------------------------------------------------------------------
(* Properties of the emission generator                                    *)

\* The pollutants the user's settings enable
Enabled(pollutantId) ==
    \/ pollutantId = "PM25" /\ settings.enablePM25
    \/ pollutantId = "VOC" /\ settings.enableVOC
    \/ pollutantId = "OZONE" /\ settings.enableOzone

\* The number of events of the last emit() that an emitter produced for a
\* pollutant
eventCount(emitterId, pollutantId) ==
    Cardinality({i \in 1..Len(emissions) :
                   /\ emissions[i].emitterId = emitterId
                   /\ emissions[i].type = pollutantId})

PointIndex == 1..Len(processedPointEmitters)
LineIndex == 1..Len(processedLineEmitters)

\* Denominator of base rate (tenths) * scale (tenths) * the user's
\* emissionRate (thousandths) * dt (1/60 s)
UserRateDen == 10 * 10 * 1000 * 60

\* count is floor(num / den) or one more, and floor(num / den) when num / den
\* is an integer
RoundsStochastically(count, num, den) ==
    /\ count \in {num \div den, num \div den + 1}
    /\ (num % den = 0) => count = num \div den

\* base_rate * emitter.scale * emission_rate_multiplier * dt over UserRateDen
userExpected(e, pollutantId) ==
    e.profileData.emissions[pollutantId] * e.scale * settings.emissionRate * fixedDt

pointShortCircuits(e, pollutantId) ==
    \/ ~Enabled(pollutantId)
    \/ e.scale = 0
    \/ e.profileData.emissions[pollutantId] = 0

\* A (line emitter, pollutant) pair that emit() short-circuits
lineShortCircuits(e, pollutantId) ==
    \/ ~Enabled(pollutantId)
    \/ e.scale = 0
    \/ e.length = 0
    \/ e.profileData.emissionsPerKm[pollutantId] = 0

\* rate per km * length * scale * the user's emissionRate * dt over UserRateDen
userExpectedLine(e, pollutantId) ==
    e.profileData.emissionsPerKm[pollutantId] * e.length * e.scale
      * settings.emissionRate * fixedDt

\* C9: emit() produces no event for a disabled species, for an emitter of
\* scale 0, for a line emitter whose route has length 0, or for a species of
\* base rate 0; it does not throw; and the other emitters and species get
\* their events (their stochastically rounded counts).
C9_ShortCircuits ==
    lastOp = "emit" =>
      /\ ~emitThrew
      /\ \A i \in PointIndex : \A id \in PollutantSet :
           IF pointShortCircuits(processedPointEmitters[i], id)
           THEN eventCount(processedPointEmitters[i].id, id) = 0
           ELSE eventCount(processedPointEmitters[i].id, id)
                  >= (userExpected(processedPointEmitters[i], id) * 5)
                       \div (UserRateDen * 10)
      /\ \A i \in LineIndex : \A id \in PollutantSet :
           IF lineShortCircuits(processedLineEmitters[i], id)
           THEN eventCount(processedLineEmitters[i].id, id) = 0
           ELSE eventCount(processedLineEmitters[i].id, id)
                  >= (userExpectedLine(processedLineEmitters[i], id) * 5)
                       \div (UserRateDen * 10)

\* One emit() with a disabled species, a point emitter of scale 0 whose
\* profile has rates, a line emitter with rates on a route of length 0, a
\* base rate of 0, and events from another emitter.
C9_Witness ==
    /\ lastOp = "emit"
    /\ ~settings.enablePM25
    /\ \E i \in PointIndex :
         /\ processedPointEmitters[i].scale = 0
         /\ processedPointEmitters[i].profileData.emissions["VOC"] > 0
    /\ \E i \in PointIndex :
         /\ processedPointEmitters[i].scale > 0
         /\ processedPointEmitters[i].profileData.emissions["OZONE"] = 0
    /\ \E i \in LineIndex :
         /\ processedLineEmitters[i].scale > 0
         /\ Len(processedLineEmitters[i].waypoints) >= 2
         /\ processedLineEmitters[i].length = 0
         /\ processedLineEmitters[i].profileData.emissionsPerKm["PM25"] > 0
    /\ Len(emissions) > 0


\* The emitters after a call that sets the scale of those with the id of
\* the call to max(0, scale) and leaves the rest as it is
withScale(emitters, call) ==
    [i \in 1..Len(emitters) |->
       IF emitters[i].id = call.id
       THEN [emitters[i] EXCEPT !.scale = Max(0, call.scale)]
       ELSE emitters[i]]

ScalesNonNegative ==
    /\ \A i \in PointIndex : processedPointEmitters[i].scale >= 0
    /\ \A i \in LineIndex : processedLineEmitters[i].scale >= 0

\* The statement of C19 as the specification words it: setEmitterScale
\* sets the scale of the emitter with the id, point or line.
C19_Original ==
    [][lastOp' = "setEmitterScale" =>
         /\ processedPointEmitters' = withScale(processedPointEmitters, lastCall')
         /\ processedLineEmitters' = withScale(processedLineEmitters, lastCall')
    ]_vars

\* C19 (emitter scale): setEmitterScale(id, scale) sets the scale of the
\* point emitter with that id to max(0, scale) and setLineEmitterScale(id,
\* scale) that of the line emitter with that id; each changes no other field
\* and no other emitter, neither touches the emitters of the other kind, and
\* a call with an id its kind does not have changes nothing; every
\* emitter's scale is >= 0 at all times.
C19_EmitterScale ==
    /\ []ScalesNonNegative
    /\ [][/\ lastOp' = "setEmitterScale" =>
               /\ processedPointEmitters' = withScale(processedPointEmitters, lastCall')
               /\ processedLineEmitters' = processedLineEmitters
          /\ lastOp' = "setLineEmitterScale" =>
               /\ processedLineEmitters' = withScale(processedLineEmitters, lastCall')
               /\ processedPointEmitters' = processedPointEmitters
       ]_vars

\* setEmitterScale('l1', -0.5) has left the line emitter l1 at the scale it
\* had, after an earlier call had set the point emitter p1 to scale 0.
C19_Witness ==
    /\ lastOp = "setEmitterScale"
    /\ lastCall = [id |-> "l1", scale |-> -5]
    /\ \E i \in LineIndex :
         processedLineEmitters[i].id = "l1" /\ processedLineEmitters[i].scale = 10
    /\ \E i \in PointIndex :
         processedPointEmitters[i].id = "p1" /\ processedPointEmitters[i].scale = 0

-----------------------------------------------------------------------------
(* The particle engine stepped by frames: stepOrchestrator, statement by   *)
(* statement, and the HUD's reset and pause between steps                  *)

MaxTicks == 2

\* registry.js: a refinery and a town, and a highway (whose profile has no
\* rates)
EnginePoints ==
    <<[id |-> "p1", profile |-> "REFINERY_MEDIUM", scale |-> 12,
       coords |-> [lon |-> 72, lat |-> 59]],
      Alameda>>
EngineLines ==
    <<[id |-> "l1", profile |-> "HIGHWAY_MAJOR", scale |-> 10,
       waypoints |-> <<WaypointA, WaypointB>>]>>

\* main.js settings; a run with many emissions and still air; a run with no
\* emissions and the strongest turbulence
EngineSettings ==
    {DefaultSettings,
     [DefaultSettings EXCEPT !.emissionRate = 10000, !.turbulence = 0],
     [DefaultSettings EXCEPT !.emissionRate = 0, !.turbulence = 10]}

\* Pools the engine holds after earlier steps: none; and a plume that has
\* sunk to the ground east of the hills and on their slope, oldest first
GroundPlume ==
    [PM25 |-> <<[newParticle(60000, 189, 0) EXCEPT !.age = 900]>>,
     VOC |-> <<[newParticle(60000, 195, 1200) EXCEPT !.age = 2700],
               [newParticle(30000, getTerrainHeight(30000, 37700) + 195, 37700)
                  EXCEPT !.age = 1200]>>,
     OZONE |-> <<>>]

\* A gas particle 5 km above the centre of the bay, x = 0 and z = 0
BayCenter ==
    [PM25 |-> <<>>, VOC |-> <<newParticle(0, 6000, 0)>>, OZONE |-> <<>>]
\* A gas particle that the wind has carried to the eastern bound of the
\* grid, x = 79.99 km, 10 km above the ground
EastEdge ==
    [PM25 |-> <<>>, VOC |-> <<>>,
     OZONE |-> <<[newParticle(95990, 12000, 0) EXCEPT !.age = 2000]>>]
Seeds == {NoParticles, GroundPlume, BayCenter, EastEdge}

logEntry(op, id, from, age) == [op |-> op, id |-> id, from |-> from, age |-> age]

\* History of addParticle(pollutantId, ...): the pool a particle was removed
\* from and its age, "" and 0 if none was
evictionEntry(parts, pollutantId, maxType) ==
    IF atCapacity(totalParticles(parts)) /\ parts[maxType] # <<>>
    THEN logEntry("addParticle", pollutantId, maxType, parts[maxType][1].age)
    ELSE logEntry("addParticle", pollutantId, "", 0)

Init ==
    /\ ClockIdle
    /\ AppIdle
    /\ registry = [points |-> EnginePoints, lines |-> EngineLines]
    /\ \E map \in {initPolluters(EnginePoints, EngineLines)} :
         /\ processedPointEmitters = map.pointEmitters
         /\ processedLineEmitters = map.lineEmitters
    /\ lastCall = NoCall
    /\ settings \in EngineSettings
    /\ emissions = <<>>
    /\ emitThrew = FALSE
    /\ particles \in Seeds
    /\ gridCells = binParticlesToGrid(particles)
    /\ instancedMeshes = updateInstancedPrisms(gridCells)
    /\ paused = FALSE
    /\ pc = Idle
    /\ rng = NoRng
    /\ ticks = 0
    /\ tickLog = <<>>
    /\ touched = <<>>
    /\ lastOp = "init"

\* stepOrchestrator: "if (paused) return"
StepPaused ==
    /\ pc = Idle
    /\ paused
    /\ tickLog' = <<>>
    /\ touched' = <<>>
    /\ lastOp' = "stepPaused"
    /\ UNCHANGED <<appVars, clockVars, emitVars, particles, gridCells, paused, instancedMeshes,
                   pc, rng, ticks>>

\* stepOrchestrator: "1. Get new emissions"; tape holds the values
\* Math.random() returns during the step
StepEmit(tape) ==
    /\ pc = Idle
    /\ ~paused
    /\ ticks < MaxTicks
    /\ \E e \in {emit(processedPointEmitters, processedLineEmitters, fixedDt,
                      scaledSettings(settings), tape)} :
         /\ emissions' = e.events
         /\ emitThrew' = e.threw
         /\ rng' = [tape |-> tape, k |-> e.k]
         /\ pc' = IF e.threw THEN Idle ELSE enter(phaseAfter("emit"), Len(e.events))
    /\ ticks' = ticks + 1
    /\ tickLog' = <<logEntry("emit", "", "", 0)>>
    /\ touched' = <<>>
    /\ lastOp' = "emit"
    /\ UNCHANGED <<appVars, clockVars, emitterVars, settings, particles, gridCells, paused,
                   instancedMeshes>>

\* stepOrchestrator: "2. Inject new particles", one event
StepInject ==
    /\ pc.phase = "inject"
    /\ \E event \in {emissions[pc.i]} :
         /\ particles' = addParticle(particles, event.type, event.x, event.y, event.z)
         /\ tickLog' = Append(tickLog,
                              evictionEntry(particles, event.type,
                                            findMaxType(particles, event.type)))
    /\ pc' = stepTo(pc, Len(emissions))
    /\ lastOp' = "addParticle"
    /\ UNCHANGED <<appVars, clockVars, emitVars, gridCells, paused, instancedMeshes, rng, ticks,
                   touched>>

\* stepOrchestrator: "3. Update particle physics", one species
StepPhysics ==
    /\ pc.phase = "physics"
    /\ \E out \in {updateParticlePhysics(particles, PollutantIds[pc.i], fixedDt,
                                         settings, rng.tape, rng.k)} :
         /\ particles' = [particles EXCEPT ![PollutantIds[pc.i]] = out.kept]
         /\ rng' = [rng EXCEPT !.k = out.k]
         /\ touched' = touched \o out.touched
    /\ tickLog' = Append(tickLog, logEntry("physics", PollutantIds[pc.i], "", 0))
    /\ pc' = stepTo(pc, Len(emissions))
    /\ lastOp' = "physics"
    /\ UNCHANGED <<appVars, clockVars, emitVars, gridCells, paused, instancedMeshes, ticks>>

\* stepOrchestrator: "4. Bin particles into grid cells"
StepBin ==
    /\ pc.phase = "bin"
    /\ gridCells' = binParticlesToGrid(particles)
    /\ tickLog' = Append(tickLog, logEntry("bin", "", "", 0))
    /\ pc' = stepTo(pc, Len(emissions))
    /\ lastOp' = "bin"
    /\ UNCHANGED <<appVars, clockVars, emitVars, particles, paused, instancedMeshes, rng, ticks,
                   touched>>

\* stepOrchestrator: "5. Update visual representation"; the Math.random()
\* calls of updateInstancedPrisms only vary the size of the prisms
StepPrisms ==
    /\ pc.phase = "prisms"
    /\ instancedMeshes' = updateInstancedPrisms(gridCells)
    /\ tickLog' = Append(tickLog, logEntry("prisms", "", "", 0))
    /\ pc' = stepTo(pc, Len(emissions))
    /\ lastOp' = "prisms"
    /\ UNCHANGED <<appVars, clockVars, emitVars, particles, gridCells, paused, rng, ticks,
                   touched>>

\* resetOrchestrator()
ResetOrchestrator ==
    /\ pc = Idle
    /\ \E eng \in {resetOrchestrator(engineState(particles, gridCells,
                                                 instancedMeshes))} :
         /\ particles' = eng.particles
         /\ gridCells' = eng.gridCells
         /\ instancedMeshes' = eng.instancedMeshes
    /\ tickLog' = <<>>
    /\ touched' = <<>>
    /\ lastOp' = "resetOrchestrator"
    /\ UNCHANGED <<appVars, clockVars, emitVars, paused, pc, rng, ticks>>

\* orchestrator.js setPaused(isPaused)
SetOrchestratorPaused(isPaused) ==
    /\ pc = Idle
    /\ paused' = isPaused
    /\ lastOp' = "setOrchestratorPaused"
    /\ UNCHANGED <<appVars, clockVars, emitVars, particles, gridCells, instancedMeshes, pc, rng,
                   ticks, tickLog, touched>>

Next ==
    \/ StepPaused
    \/ \E tape \in Tapes : StepEmit(tape)
    \/ StepInject
    \/ StepPhysics
    \/ StepBin
    \/ StepPrisms
    \/ ResetOrchestrator
    \/ \E isPaused \in BOOLEAN : SetOrchestratorPaused(isPaused)

Spec == Init /\ [][Next]_vars

-----------------------------------------------------------------------------
(* The application: main.js, its frames and the handlers of the HUD, with  *)
(* stepOrchestrator as one step                                            *)

MaxFrameTicks == 2

\* clock.getDelta() of a frame: 1/120 s and 1/40 s
FrameDeltaTimes == {1, 3}

\* The values Math.random() returns during a frame: all low, or all high
FrameTapes == {[i \in 1..TapeLen |-> v] : v \in RandomValues}

\* newSettings of the HUD: still air and 50 times the emission rate; 2.5
\* times the speed
SettingsUpdates ==
    {[turbulence |-> 0, emissionRate |-> 10000], [timeScale |-> 25]}

\* The smoothed raster of /baymerge.tif, in metres: sea level in the north
\* west, 250 m in the north east, no data in the south west, 125 m in the
\* south east
ElevationRasters == {[width |-> 2, height |-> 2, data |-> <<0, 250, -9999, 125>>]}

\* The Math.random() values that follow the first k of a tape
rotate(tape, k) == [i \in 1..Len(tape) |-> draw(tape, k + i - 1)]

RECURSIVE runSteps(_, _, _, _, _, _, _)
RECURSIVE afterStep(_, _)
\* animate: "for (let i = 0; i < steps; i++) stepOrchestrator(fixedDt,
\* settings)"; an exception of a step ends the frame
runSteps(eng, steps, isPaused, points, lines, st, tape) ==
    IF steps = 0 \/ isPaused \/ eng.threw THEN eng
    ELSE runSteps(afterStep(eng, stepOrchestrator(eng, isPaused, points, lines,
                                                  fixedDt, st, rotate(tape, eng.k))),
                  steps - 1, isPaused, points, lines, st, tape)
afterStep(eng, out) ==
    [out EXCEPT !.k = eng.k + out.k,
                !.executed = IF out.threw THEN @ ELSE @ + 1]

AppInit ==
    /\ ClockIdle
    /\ AppIdle
    /\ registry = [points |-> EnginePoints, lines |-> EngineLines]
    /\ \E map \in {initPolluters(EnginePoints, EngineLines)} :
         /\ processedPointEmitters = map.pointEmitters
         /\ processedLineEmitters = map.lineEmitters
    /\ lastCall = NoCall
    /\ settings = DefaultSettings
    /\ emissions = <<>>
    /\ emitThrew = FALSE
    /\ EngineIdle
    /\ lastOp = "init"

\* main.js animate(): TimeManager.update(realDeltaTime), then the steps
Frame(realDeltaTime, tape) ==
    /\ \E tm \in {update(TimeManager, realDeltaTime)} :
         /\ ticks + tm.stepsThisFrame <= MaxFrameTicks
         /\ TimeManager' = tm
         /\ stepsReturned' = stepsReturned + tm.stepsThisFrame
         /\ \E eng \in {runSteps(engineState(particles, gridCells, instancedMeshes),
                                 tm.stepsThisFrame, paused, processedPointEmitters,
                                 processedLineEmitters, settings, tape)} :
              /\ particles' = eng.particles
              /\ gridCells' = eng.gridCells
              /\ instancedMeshes' = eng.instancedMeshes
              /\ emitThrew' = eng.threw
              /\ ticks' = ticks + eng.executed
    /\ lastDt' = realDeltaTime
    /\ lastOp' = "animate"
    /\ UNCHANGED <<elevationData, appState, lastReset, lastScale, emitterVars,
                   settings, emissions, paused, pc, rng, tickLog, touched>>

Animate(realDeltaTime, tape) ==
    /\ Frame(realDeltaTime, tape)
    /\ UNCHANGED run

\* map.js loadGeoTIFFAndCreateTerrain: the fetch that initMap started has
\* resolved, "elevationData = smoothElevationData(...)"
GeoTIFFLoaded(raster) ==
    /\ elevationData = NoElevation
    /\ elevationData' = raster
    /\ lastOp' = "geotiff"
    /\ UNCHANGED <<clockVars, emitVars, engineVars, appState, lastReset, run>>

\* main.js onReset: resetOrchestrator(); TimeManager.reset()
OnReset ==
    /\ \E eng \in {resetOrchestrator(engineState(particles, gridCells,
                                                 instancedMeshes))} :
         /\ particles' = eng.particles
         /\ gridCells' = eng.gridCells
         /\ instancedMeshes' = eng.instancedMeshes
    /\ TimeManager' = reset(TimeManager)
    /\ stepsReturned' = 0
    /\ lastReset' = [clock |-> TimeManager.accumulator > 0
                                  /\ TimeManager.simulationTime > 0,
                     pools |-> totalParticles(particles) > 0
                                  /\ totalParticles(gridCells) > 0]
    /\ lastOp' = "onReset"
    /\ UNCHANGED <<elevationData, appState, run, lastDt, lastScale, emitVars,
                   paused, pc, rng, ticks, tickLog, touched>>

\* main.js onPauseToggle
OnPauseToggle ==
    /\ appState' = [paused |-> ~appState.paused]
    /\ TimeManager' = setPaused(TimeManager, ~appState.paused)
    /\ paused' = ~appState.paused
    /\ lastOp' = "onPauseToggle"
    /\ UNCHANGED <<elevationData, lastReset, run, lastDt, lastScale, stepsReturned,
                   emitVars, particles, gridCells, instancedMeshes, pc, rng, ticks,
                   tickLog, touched>>

AppNext ==
    \/ \E realDeltaTime \in FrameDeltaTimes, tape \in FrameTapes :
         Animate(realDeltaTime, tape)
    \/ \E raster \in ElevationRasters : GeoTIFFLoaded(raster)
    \/ OnReset
    \/ OnPauseToggle
    \/ \E newSettings \in SettingsUpdates : OnChangeSettings(newSettings)
    \/ SetEmitterScale("p1", 20)

AppSpec == AppInit /\ [][AppNext]_vars


\* The entries of the step's log with operation op
logOf(op) == SelectSeq(tickLog, LAMBDA e : e.op = op)

Total == Len(particles["PM25"]) + Len(particles["VOC"]) + Len(particles["OZONE"])

\* C3 (capacity bound): the total number of live particles over all pools
\* never exceeds maxParticles, and an insertion made when the total has
\* reached maxParticles leaves the total equal to maxParticles.
C3_CapacityBound ==
    /\ [](Total <= maxParticles)
    /\ [][(lastOp' = "addParticle" /\ Total >= maxParticles)
            => Total' = maxParticles]_vars

\* An insertion at the cap has removed a particle and the pools are full,
\* and physics steps have run before it.
C3_Witness ==
    /\ lastOp = "addParticle"
    /\ tickLog[Len(tickLog)].from # ""
    /\ Total = maxParticles
    /\ ticks = 2

\* The event addParticle is called with in the next StepInject
InsertedEvent == emissions[pc.i]
InsertedParticle ==
    [x |-> InsertedEvent.x, y |-> InsertedEvent.y, z |-> InsertedEvent.z,
     age |-> 0, mass |-> 1, nan |-> FALSE]

integratedSoFar == [i \in 1..Len(logOf("physics")) |-> logOf("physics")[i].id]

\* C5 (tick ordering): in the log of every step no emission or insertion
\* follows an integration and no integration follows the rebuilding of the
\* grid; the grid is rebuilt at most once, and only after all events of the
\* step were inserted and every species pool was integrated once; a step
\* that has ended has rebuilt it.
C5_TickOrdering ==
    /\ \A i \in 1..Len(tickLog) : \A j \in (i + 1)..Len(tickLog) :
         /\ tickLog[i].op = "physics" => tickLog[j].op \notin {"emit", "addParticle"}
         /\ tickLog[i].op = "bin" => tickLog[j].op \notin {"emit", "addParticle", "physics"}
    /\ Len(logOf("bin")) <= 1
    /\ Len(logOf("physics")) > 0 => Len(logOf("addParticle")) = Len(emissions)
    /\ Len(logOf("bin")) = 1 =>
         /\ Len(logOf("emit")) = 1
         /\ Len(logOf("addParticle")) = Len(emissions)
         /\ integratedSoFar = PollutantIds
    /\ (pc = Idle /\ lastOp = "prisms") => Len(logOf("bin")) = 1

\* A step that has ended after inserting several events, with particles in
\* the pools.
C5_Witness ==
    /\ pc = Idle
    /\ lastOp = "prisms"
    /\ Len(emissions) >= 2
    /\ Total >= 2

InGridBounds(p) ==
    /\ ~p.nan
    /\ -96000 <= p.x /\ p.x <= 96000
    /\ 0 <= p.y /\ p.y <= 42000
    /\ -86400 <= p.z /\ p.z <= 86400

RECURSIVE sumCount(_, _)
sumCount(cells, i) ==
    IF i > Len(cells) THEN 0 ELSE cells[i].count + sumCount(cells, i + 1)

\* C6 (binning conservation): between steps, for every species whose
\* particles all lie within the grid bounds, the counts of the cells of the
\* species' grid sum to the number of particles of its pool.
C6_BinningConservation ==
    pc = Idle =>
      \A id \in PollutantSet :
        (\A i \in 1..Len(particles[id]) : InGridBounds(particles[id][i]))
          => sumCount(gridCells[id], 1) = Len(particles[id])

\* A step has ended with a pool of several particles within the grid bounds
\* that share a cell, and another pool that fills more than one cell.
C6_Witness ==
    /\ pc = Idle
    /\ lastOp = "prisms"
    /\ \A id \in PollutantSet : \A i \in 1..Len(particles[id]) :
         InGridBounds(particles[id][i])
    /\ \E id \in PollutantSet : \E i \in 1..Len(gridCells[id]) :
         gridCells[id][i].count >= 2
    /\ \E id \in PollutantSet : Len(gridCells[id]) >= 2

Settles(id) == POLLUTANT_TYPES[id].settlingRate > 0

\* The statement of C7 as the specification words it: every gas particle
\* driven to the terrain stays in its pool.
C7_Original ==
    \A i \in 1..Len(touched) :
      IF Settles(touched[i].type) THEN touched[i].fate = "deposited"
      ELSE /\ touched[i].fate = "kept"
           /\ touched[i].p.y > terrainUnder(touched[i].p) + 180

\* C7 (deposition vs. bounce): a particle that an integration step moves to
\* or below the terrain height plus 0.15 km is removed if its species
\* settles, so that no particle of such a species is left at or below that
\* height when the step ends; a gas particle is put at the terrain height
\* plus 0.3 km, and stays in its pool unless the same step removes it for
\* its age or for leaving the bounds.
C7_DepositionVsBounce ==
    /\ \A i \in 1..Len(touched) :
         IF Settles(touched[i].type) THEN touched[i].fate = "deposited"
         ELSE /\ touched[i].fate \in {"kept", "expired", "culled"}
              /\ touched[i].p.y = terrainUnder(touched[i].p) + 360
              /\ touched[i].fate = "expired" => touched[i].p.age > lifetime
              /\ touched[i].fate = "culled" => outOfBounds(touched[i].p)
              /\ touched[i].fate = "kept" =>
                   \E j \in 1..Len(particles[touched[i].type]) :
                     particles[touched[i].type][j] = touched[i].p
    /\ (pc = Idle /\ lastOp = "prisms") =>
         \A id \in PollutantSet : \A j \in 1..Len(particles[id]) :
           Settles(id) => particles[id][j].y > terrainUnder(particles[id][j]) + 180

\* A step in which a PM2.5 particle was deposited and a gas particle was
\* put above hilly terrain and kept.
C7_Witness ==
    /\ pc = Idle
    /\ lastOp = "prisms"
    /\ \E i \in 1..Len(touched) :
         touched[i].type = "PM25" /\ touched[i].fate = "deposited"
    /\ \E i \in 1..Len(touched) :
         /\ touched[i].type = "VOC"
         /\ touched[i].fate = "kept"
         /\ terrainUnder(touched[i].p) > 0

\* C15 (no NaN from division by zero): no live particle ever has a
\* coordinate that is not a number, also after the velocity field has been
\* evaluated for a particle exactly at the bay center (x = 0, z = 0), and no
\* grid cell is keyed by such a coordinate.
C15_NoNaN ==
    /\ \A id \in PollutantSet : \A i \in 1..Len(particles[id]) :
         ~particles[id][i].nan
    /\ \A id \in PollutantSet : \A i \in 1..Len(gridCells[id]) :
         ~gridCells[id][i].nan

-----------------------------------------------------------------------------
(* Properties of the initialisation of the emitters                        *)

\* registry.js validateRegistry(): the ids of the emitters it reports with
\* 'has invalid profile'
invalidProfiles(emitters) ==
    {emitters[i].id : i \in {j \in 1..Len(emitters) : ~KnownProfile(emitters[j])}}

\* C16 (unknown profile is rejected): when a point or line emitter of the
\* registry references a profile that is not in the profile table, the
\* initialisation of the emitters fails: it leaves no processed emitter
\* behind (it does not skip the offending emitter and go on with the
\* others), and no emission step runs on its result.
C16_UnknownProfileRejected ==
    (invalidProfiles(registry.points) \cup invalidProfiles(registry.lines) # {})
      => /\ processedPointEmitters = <<>>
         /\ processedLineEmitters = <<>>
         /\ lastOp # "emit"

-----------------------------------------------------------------------------
(* Properties of the prisms handed to the renderer                         *)

\* The keys of the first n cells of a grid, in insertion order
firstKeys(cells, n) == [i \in 1..n |-> cellKey(cells[i])]

\* C20 (instance cap): whenever the prisms have been updated, each species'
\* mesh draws min(number of occupied cells, MAX_INSTANCES) instances, which
\* are the first cells of its grid in insertion order, one instance per
\* cell; the cells beyond the cap are not drawn, and at no time does a mesh
\* draw more than MAX_INSTANCES instances.
C20_InstanceCap ==
    /\ \A id \in PollutantSet :
         /\ instancedMeshes[id].count <= MAX_INSTANCES
         /\ Len(instancedMeshes[id].instances) = instancedMeshes[id].count
    /\ lastOp \in {"prisms", "resetOrchestrator"} =>
         \A id \in PollutantSet :
           /\ instancedMeshes[id].count = Min(Len(gridCells[id]), MAX_INSTANCES)
           /\ instancedMeshes[id].instances
                = firstKeys(gridCells[id], Min(Len(gridCells[id]), MAX_INSTANCES))

\* A step has updated the prisms of a species that occupies more cells than
\* the cap, while another species occupies fewer.
C20_Witness ==
    /\ lastOp = "prisms"
    /\ \E id \in PollutantSet :
         /\ Len(gridCells[id]) > MAX_INSTANCES
         /\ instancedMeshes[id].count = MAX_INSTANCES
    /\ \E id \in PollutantSet :
         /\ Len(gridCells[id]) > 0
         /\ Len(gridCells[id]) < MAX_INSTANCES

-----------------------------------------------------------------------------
(* Two runs of the application on the same inputs: the first run's frames  *)
(* are recorded, the program is started again, and the second run is given *)
(* the same frames; the terrain load resolves when it resolves             *)

MaxRunFrames == 2

\* main.js settings with still air
StillAir == [DefaultSettings EXCEPT !.turbulence = 0]

ReplayInit ==
    /\ ClockIdle
    /\ AppIdle
    /\ registry = [points |-> EnginePoints, lines |-> EngineLines]
    /\ \E map \in {initPolluters(EnginePoints, EngineLines)} :
         /\ processedPointEmitters = map.pointEmitters
         /\ processedLineEmitters = map.lineEmitters
    /\ lastCall = NoCall
    /\ settings = StillAir
    /\ emissions = <<>>
    /\ emitThrew = FALSE
    /\ EngineIdle
    /\ lastOp = "init"

\* A frame of the first run, recorded with the pools it leaves, or the next
\* recorded frame given to the second run
RunFrame(realDeltaTime, tape) ==
    /\ Frame(realDeltaTime, tape)
    /\ IF run.n = 1
       THEN /\ Len(run.inputs) < MaxRunFrames
            /\ run' = [run EXCEPT
                         !.inputs = Append(@, [dt |-> realDeltaTime, tape |-> tape]),
                         !.pools = Append(@, particles')]
       ELSE /\ run.at < Len(run.inputs)
            /\ run.inputs[run.at + 1] = [dt |-> realDeltaTime, tape |-> tape]
            /\ run' = [run EXCEPT !.at = @ + 1]

\* The page is loaded again: main.js init() with the same registry and
\* settings, the terrain not yet loaded
Restart ==
    /\ run.n = 1
    /\ run.inputs # <<>>
    /\ run' = [run EXCEPT !.n = 2]
    /\ TimeManager' = setTimeScale(TimeManagerInit, DefaultTimeScale)
    /\ lastDt' = 0
    /\ lastScale' = DefaultTimeScale
    /\ stepsReturned' = 0
    /\ elevationData' = NoElevation
    /\ particles' = NoParticles
    /\ gridCells' = NoParticles
    /\ instancedMeshes' = [id \in PollutantSet |-> NoInstances]
    /\ emitThrew' = FALSE
    /\ ticks' = 0
    /\ lastOp' = "init"
    /\ UNCHANGED <<appState, lastReset, emitterVars, settings, emissions, paused,
                   pc, rng, tickLog, touched>>

ReplayNext ==
    \/ \E realDeltaTime \in FrameDeltaTimes, tape \in FrameTapes :
         RunFrame(realDeltaTime, tape)
    \/ \E raster \in ElevationRasters : GeoTIFFLoaded(raster)
    \/ Restart

ReplaySpec == ReplayInit /\ [][ReplayNext]_vars

-----------------------------------------------------------------------------
(* Properties of the application                                           *)

\* The scales of a list of emitters
scalesOf(emitters) == [i \in 1..Len(emitters) |-> emitters[i].scale]

\* C17 (reset postcondition): after the reset of the HUD the clock's
\* accumulator and simulation time are 0 and every species' pool and grid
\* are empty, while the paused flags, the time scale and every emitter's
\* scale have the values they had before the reset.
C17_ResetPostcondition ==
    [][lastOp' = "onReset" =>
         /\ TimeManager'.accumulator = 0
         /\ TimeManager'.simulationTime = 0
         /\ \A id \in PollutantSet : particles'[id] = <<>> /\ gridCells'[id] = <<>>
         /\ TimeManager'.paused = TimeManager.paused
         /\ paused' = paused
         /\ appState' = appState
         /\ TimeManager'.timeScale = TimeManager.timeScale
         /\ scalesOf(processedPointEmitters') = scalesOf(processedPointEmitters)
         /\ scalesOf(processedLineEmitters') = scalesOf(processedLineEmitters)]_vars

\* A reset made while paused, at 2.5 times the speed and with the scale of
\* p1 changed, that found the clock advanced and the pools and grids filled.
C17_Witness ==
    /\ lastOp = "onReset"
    /\ lastReset.clock
    /\ lastReset.pools
    /\ TimeManager.paused
    /\ paused
    /\ TimeManager.timeScale = 25
    /\ \E i \in 1..Len(processedPointEmitters) :
         processedPointEmitters[i].id = "p1" /\ processedPointEmitters[i].scale = 20

\* C14 (determinism modulo turbulence): with turbulence 0, a second run of
\* the program that starts from the same state, draws the same
\* Math.random() values and is given the same realDeltaTime in every frame
\* has, after every frame, the particle pools the first run had after that
\* frame: the same particles in the same order, with the same positions and
\* ages.
C14_Determinism ==
    (run.n = 2 /\ run.at > 0) => particles = run.pools[run.at]

-----------------------------------------------------------------------------
(* The sizing of the prisms: one cell of the VOC grid that fills up, drawn *)
(* now and then                                                            *)

MaxCellCount == 22

\* A particle in the cell above the bay center
CellParticle == [newParticle(0, 0, 0) EXCEPT !.age = 60]

SizingInit ==
    /\ ClockIdle
    /\ AppIdle
    /\ EmitIdle
    /\ particles = NoParticles
    /\ gridCells = [NoParticles EXCEPT !["VOC"] = binParticle(<<>>, CellParticle)]
    /\ instancedMeshes = [id \in PollutantSet |-> NoInstances]
    /\ paused = FALSE
    /\ pc = Idle
    /\ rng = NoRng
    /\ ticks = 0
    /\ tickLog = <<>>
    /\ touched = <<>>
    /\ lastOp = "init"

\* binParticlesToGrid: one more particle falls into the cell
BinOneMore ==
    /\ gridCells["VOC"][1].count < MaxCellCount
    /\ gridCells' = [gridCells EXCEPT !["VOC"] = binParticle(@, CellParticle)]
    /\ lastOp' = "bin"
    /\ UNCHANGED <<appVars, clockVars, emitVars, particles, instancedMeshes, paused,
                   pc, rng, ticks, tickLog, touched>>

\* updateInstancedPrisms()
DrawPrisms ==
    /\ instancedMeshes' = updateInstancedPrisms(gridCells)
    /\ lastOp' = "prisms"
    /\ UNCHANGED <<appVars, clockVars, emitVars, particles, gridCells, paused, pc,
                   rng, ticks, tickLog, touched>>

SizingNext == BinOneMore \/ DrawPrisms

SizingSpec == SizingInit /\ [][SizingNext]_vars

\* The size range maxPrismSize - basePrismSize and the threshold span
SizeRange == GRID_CONFIG.maxPrismSize - GRID_CONFIG.basePrismSize
ThresholdSpan == GRID_CONFIG.highThreshold - GRID_CONFIG.lowThreshold

\* size is, to the thousandth below, base + (max - base) * sqrt((count - low)
\* / (high - low))
Eased(size, count) ==
    /\ size >= GRID_CONFIG.basePrismSize
    /\ (size - GRID_CONFIG.basePrismSize) * (size - GRID_CONFIG.basePrismSize)
         * ThresholdSpan
       <= SizeRange * SizeRange * (count - GRID_CONFIG.lowThreshold)
    /\ (size - GRID_CONFIG.basePrismSize + 1) * (size - GRID_CONFIG.basePrismSize + 1)
         * ThresholdSpan
       > SizeRange * SizeRange * (count - GRID_CONFIG.lowThreshold)

\* C21 (sizing policy): the size factor of a drawn cell is the base size
\* when the cell's count is at or below lowThreshold, the maximum size when
\* it is at or above highThreshold, and base + (max - base) * sqrt((count -
\* low) / (high - low)) in between; it lies within [base, max], the span of
\* the thresholds it divides by is not zero, and drawing a cell again after
\* its count has grown never gives a smaller size.
C21_SizingPolicy ==
    /\ [](ThresholdSpan > 0)
    /\ [](lastOp = "prisms" =>
            \E count \in {gridCells["VOC"][1].count},
               size \in {instancedMeshes["VOC"].sizes[1]} :
              /\ GRID_CONFIG.basePrismSize <= size
              /\ size <= GRID_CONFIG.maxPrismSize
              /\ count <= GRID_CONFIG.lowThreshold => size = GRID_CONFIG.basePrismSize
              /\ count >= GRID_CONFIG.highThreshold => size = GRID_CONFIG.maxPrismSize
              /\ (count > GRID_CONFIG.lowThreshold /\ count < GRID_CONFIG.highThreshold)
                   => Eased(size, count))
    /\ [][(lastOp' = "prisms" /\ instancedMeshes["VOC"].count = 1)
            => instancedMeshes'["VOC"].sizes[1] >= instancedMeshes["VOC"].sizes[1]]_vars

\* A cell of six particles drawn at a size above the middle of the range
\* and below the maximum size.
C21_Witness ==
    /\ lastOp = "prisms"
    /\ gridCells["VOC"][1].count = 6
    /\ instancedMeshes["VOC"].sizes[1] > GRID_CONFIG.basePrismSize + SizeRange \div 2
    /\ instancedMeshes["VOC"].sizes[1] < GRID_CONFIG.maxPrismSize

-----------------------------------------------------------------------------
(* The application a quarter of the way into the diurnal cycle of the wind *)
(* field, after 30 s of simulation without emissions                       *)

\* A quarter of the 120 s cycle of getVelocityAt, in steps of 1/60 s
QuarterDay == 7200 \div 4

\* main.js settings with still air and no emissions
NoEmissions == [DefaultSettings EXCEPT !.turbulence = 0, !.emissionRate = 0]

\* Gas particles the pools hold: 10 km above the plain east of the hills, and
\* 5 km above the western shore of the bay
Drifting ==
    {[NoParticles EXCEPT !["VOC"] = <<newParticle(60000, 12000, 6000)>>],
     [NoParticles EXCEPT !["OZONE"] = <<newParticle(-24000, 6000, -12000)>>]}

DayInit ==
    /\ TimeManager = [setTimeScale(TimeManagerInit, DefaultTimeScale)
                        EXCEPT !.simulationTime = QuarterDay * fixedDeltaTime]
    /\ lastDt = 0
    /\ lastScale = DefaultTimeScale
    /\ stepsReturned = QuarterDay
    /\ AppIdle
    /\ registry = [points |-> EnginePoints, lines |-> EngineLines]
    /\ \E map \in {initPolluters(EnginePoints, EngineLines)} :
         /\ processedPointEmitters = map.pointEmitters
         /\ processedLineEmitters = map.lineEmitters
    /\ lastCall = NoCall
    /\ settings = NoEmissions
    /\ emissions = <<>>
    /\ emitThrew = FALSE
    /\ particles \in Drifting
    /\ gridCells = binParticlesToGrid(particles)
    /\ instancedMeshes = updateInstancedPrisms(gridCells)
    /\ paused = FALSE
    /\ pc = Idle
    /\ rng = NoRng
    /\ ticks = 0
    /\ tickLog = <<>>
    /\ touched = <<>>
    /\ lastOp = "init"

DayNext ==
    \/ \E realDeltaTime \in FrameDeltaTimes, tape \in FrameTapes :
         Animate(realDeltaTime, tape)
    \/ OnPauseToggle
    \/ \E newSettings \in SettingsUpdates : OnChangeSettings(newSettings)

DaySpec == DayInit /\ [][DayNext]_vars

\* The time of the running tick in steps of 1/60 s, for a clock whose
\* simulation time is simulationTime
tickTime(simulationTime) == simulationTime \div fixedDeltaTime

\* p after the advection of one step by the velocity of the field at time t
advectedAt(p, t, st) ==
    advect(p, getVelocityAt(p.x, p.y, p.z, t, st, <<0>>, 0), fixedDt)

\* C23 (velocity is evaluated at the tick's time): in a frame of one step
\* with still air and no emissions, a gas particle that stays in its pool is
\* advected by the velocity the field has at the simulation time of that
\* tick (the clock's simulation time when the step runs), so that the sea
\* breeze of the diurnal cycle moves it.
C23_VelocityAtTickTime ==
    [][(/\ lastOp' = "animate"
        /\ TimeManager'.stepsThisFrame = 1
        /\ settings.turbulence = 0
        /\ settings.emissionRate = 0)
        => \A id \in {"VOC", "OZONE"} :
             (Len(particles[id]) = 1 /\ Len(particles'[id]) = 1)
               => particles'[id][1].x
                    = advectedAt(particles[id][1],
                                 tickTime(TimeManager'.simulationTime), settings).x]_vars

\* The height an emitter of the processed list would be given now
emissionHeight(e) ==
    getTerrainHeight(e.worldPosition.x, e.worldPosition.z)
        + OrDefault(e.profileData.height, 600) + e.profileData.plumeRise

\* C24 (terrain_height purity under asynchronous loading): at every moment
\* of a run, before and after the GeoTIFF terrain load completes, the height
\* kept in a point emitter's worldPosition equals the terrain height at its
\* position plus the profile's height and plume rise, and the terrain height
\* kept with it is the terrain height at its position.
C24_TerrainHeightPure ==
    \A i \in 1..Len(processedPointEmitters) :
        /\ processedPointEmitters[i].worldPosition.y
             = emissionHeight(processedPointEmitters[i])
        /\ processedPointEmitters[i].terrainHeight
             = terrainAt(processedPointEmitters[i].worldPosition)

\* The ages of the particles of a pool
agesOf(pool) == {pool[j].age : j \in 1..Len(pool)}

\* The entries the integration that has just run added to touched
NewlyTouched == {touched'[i] : i \in (Len(touched) + 1)..Len(touched')}

\* C25 (expiry): once the pools of a step are integrated and when the step
\* has ended, every particle has 0 < age <= lifetime; an integration leaves
\* in the pool only particles it has aged by dt, removes in the same step a
\* particle whose age after aging exceeds lifetime, and removes a deposited
\* particle with the age it had before.
C25_Expiry ==
    /\ [](lastOp \in {"bin", "prisms"} =>
            \A id \in PollutantSet : \A j \in 1..Len(particles[id]) :
               particles[id][j].age > 0 /\ particles[id][j].age <= lifetime)
    /\ [][lastOp' = "physics" =>
            \E id \in {PollutantIds[pc.i]} :
              /\ \A a \in agesOf(particles'[id]) :
                   a <= lifetime /\ a - fixedDt \in agesOf(particles[id])
              /\ \A a \in agesOf(particles[id]) :
                   a + fixedDt > lifetime => a + fixedDt \notin agesOf(particles'[id])
              /\ \A e \in NewlyTouched :
                   /\ e.fate = "deposited" => e.p.age \in agesOf(particles[id])
                   /\ e.fate = "expired" => e.p.age > lifetime
       ]_vars

\* A step has ended in which a particle of age lifetime was aged and removed
\* for its age and another was deposited, and which left aged particles.
C25_Witness ==
    /\ pc = Idle
    /\ lastOp = "prisms"
    /\ \E i \in 1..Len(touched) :
         touched[i].fate = "expired" /\ touched[i].p.age = lifetime + fixedDt
    /\ \E i \in 1..Len(touched) :
         touched[i].fate = "deposited" /\ touched[i].p.age = 900
    /\ \E j \in 1..Len(particles["VOC"]) : particles["VOC"][j].age = 1200 + fixedDt

\* p lies within the ranges outside of which updateParticlePhysics removes a
\* particle; a coordinate that is not a number lies within no range
withinCullBounds(p) ==
    /\ ~p.nan
    /\ Abs(p.x) <= MAP_BOUNDS.width \div 2 + 18000
    /\ Abs(p.z) <= MAP_BOUNDS.depth \div 2 + 18000
    /\ p.y >= -2400
    /\ p.y <= 54000

\* C26 (bounds culling): once the pools of a step are integrated and when
\* the step has ended, every particle has |x| <= halfWidth + 15 km,
\* |z| <= halfDepth + 15 km and -2 km <= y <= 45 km.
C26_BoundsCulling ==
    lastOp \in {"bin", "prisms"} =>
      \A id \in PollutantSet : \A j \in 1..Len(particles[id]) :
         withinCullBounds(particles[id][j])

\* The indices of the particles of a pool that worldToCell maps to key
mappedTo(pool, key) == {j \in 1..Len(pool) : cellKey(worldToCell(pool[j])) = key}

RECURSIVE sumAge(_, _, _)
\* The summed age of the particles of pool from index j on that map to key
sumAge(pool, key, j) ==
    IF j > Len(pool) THEN 0
    ELSE (IF j \in mappedTo(pool, key) THEN pool[j].age ELSE 0)
           + sumAge(pool, key, j + 1)

RECURSIVE sumMass(_, _, _)
sumMass(pool, key, j) ==
    IF j > Len(pool) THEN 0
    ELSE (IF j \in mappedTo(pool, key) THEN pool[j].mass ELSE 0)
           + sumMass(pool, key, j + 1)

\* C27 (fresh, exact grid): once the grid of a step is rebuilt and when the
\* step has ended, for every species the keys of the grid's cells are the
\* keys the particles of the pool map to, each once, and every cell's count,
\* totalAge and totalMass are the number, the summed age and the summed mass
\* of the particles that map to its key; no cell has count 0.
C27_FreshExactGrid ==
    lastOp \in {"bin", "prisms"} =>
      \A id \in PollutantSet :
        /\ {cellKey(gridCells[id][i]) : i \in 1..Len(gridCells[id])}
             = {cellKey(worldToCell(particles[id][j])) : j \in 1..Len(particles[id])}
        /\ \A i \in 1..Len(gridCells[id]) :
             /\ \A h \in 1..Len(gridCells[id]) :
                  cellKey(gridCells[id][h]) = cellKey(gridCells[id][i]) => h = i
             /\ gridCells[id][i].count > 0
             /\ gridCells[id][i].count
                  = Cardinality(mappedTo(particles[id], cellKey(gridCells[id][i])))
             /\ gridCells[id][i].totalAge
                  = sumAge(particles[id], cellKey(gridCells[id][i]), 1)
             /\ gridCells[id][i].totalMass
                  = sumMass(particles[id], cellKey(gridCells[id][i]), 1)

\* The second step has ended with a cell of two particles of different ages
\* and a species whose particles fill two cells.
C27_Witness ==
    /\ pc = Idle
    /\ lastOp = "prisms"
    /\ ticks = 2
    /\ \E id \in PollutantSet : \E i \in 1..Len(gridCells[id]) :
         /\ gridCells[id][i].count = 2
         /\ gridCells[id][i].totalAge % 2 = 1
    /\ \E id \in PollutantSet : Len(gridCells[id]) >= 2

\* C28 (ticks executed match the clock): whatever frames, pause toggles,
\* resets and changes of the settings came before, the clock's paused flag
\* and the engine's paused flag are equal; the number of steps the engine
\* executes in a frame is the number of steps the clock returned for it; and
\* the simulation time is fixedDeltaTime times the number of steps executed
\* since the last reset.
C28_TicksMatchClock ==
    /\ [](TimeManager.paused = paused /\ paused = appState.paused)
    /\ [][lastOp' = "animate" => ticks' - ticks = TimeManager'.stepsThisFrame]_vars
    /\ [][lastOp' = "animate" =>
            TimeManager'.simulationTime - TimeManager.simulationTime
               = fixedDeltaTime * (ticks' - ticks)]_vars
    /\ [][lastOp' # "animate" =>
            /\ ticks' = ticks
            /\ TimeManager'.simulationTime
                 = IF lastOp' = "onReset" THEN 0 ELSE TimeManager.simulationTime]_vars
    /\ [](TimeManager.simulationTime = fixedDeltaTime * stepsReturned)

\* A frame has run while the clock and the engine are paused, after a reset
\* and a change of the time scale: the clock returned no step for it, and
\* one step was executed before the reset and one since, which left
\* particles.
C28_Witness ==
    /\ lastOp = "animate"
    /\ paused
    /\ TimeManager.timeScale # DefaultTimeScale
    /\ lastReset.clock
    /\ TimeManager.stepsThisFrame = 0
    /\ TimeManager.simulationTime = fixedDeltaTime
    /\ ticks = MaxFrameTicks
    /\ totalParticles(particles) > 0

\* The numbers of cells of the grid along x, y and z
GridDimensions == [x |-> 64, y |-> 12, z |-> 58]

\* C29 (grid bounds catch every live particle): once the pools of a step are
\* integrated and when the step has ended, every particle lies within the
\* grid bounds, and every cell of the grid has indices within the grid's
\* dimensions.
C29_GridCatchesAll ==
    lastOp \in {"bin", "prisms"} =>
      \A id \in PollutantSet :
        /\ \A j \in 1..Len(particles[id]) : InGridBounds(particles[id][j])
        /\ lastOp = "prisms" =>
             \A i \in 1..Len(gridCells[id]) :
               /\ ~gridCells[id][i].nan
               /\ gridCells[id][i].cellX \in 0..(GridDimensions.x - 1)
               /\ gridCells[id][i].cellY \in 0..(GridDimensions.y - 1)
               /\ gridCells[id][i].cellZ \in 0..(GridDimensions.z - 1)

-----------------------------------------------------------------------------
(* registry.js getRandomPointOnRoute on routes of two and more waypoints   *)

\* Bound of the model: the greatest number of waypoints of a route
MaxWaypoints == 4

\* The routes of 2..MaxWaypoints waypoints over three places, among them
\* routes with segments of no length and routes of no length
RouteInputs ==
    UNION {[1..n -> {WaypointA, WaypointB, WaypointC}] : n \in 2..MaxWaypoints}

RouteInit ==
    /\ ClockIdle
    /\ AppIdle
    /\ \E waypoints \in RouteInputs :
         registry = [points |-> <<>>,
                     lines |-> <<[id |-> "l1", profile |-> "HIGHWAY_MAJOR",
                                  scale |-> 10, waypoints |-> waypoints]>>]
    /\ \E map \in {initPolluters(registry.points, registry.lines)} :
         /\ processedPointEmitters = map.pointEmitters
         /\ processedLineEmitters = map.lineEmitters
    /\ lastCall = NoCall
    /\ settings = DefaultSettings
    /\ emissions = <<>>
    /\ emitThrew = FALSE
    /\ EngineIdle
    /\ lastOp = "init"

\* getRandomPointOnRoute(emitter.waypoints) for the line emitter, with a
\* Math.random() of r / RandDen; emissions keeps the point returned
RandomPointOnRoute(r) ==
    /\ emissions' = <<getRandomPointOnRoute(processedLineEmitters[1].waypoints, r)>>
    /\ rng' = [tape |-> <<r>>, k |-> 1]
    /\ lastOp' = "getRandomPointOnRoute"
    /\ UNCHANGED <<appVars, clockVars, emitterVars, settings, emitThrew, particles,
                   gridCells, paused, instancedMeshes, pc, ticks, tickLog, touched>>

RouteNext == \E r \in RandomValues : RandomPointOnRoute(r)

RouteSpec == RouteInit /\ [][RouteNext]_vars

\* The route sampled, its cumulative distances and total length, the target
\* distance times RandDen, and the index (from 0) of the segment chosen
sampledRoute == processedLineEmitters[1].waypoints
sampledDistances == cumulative(sampledRoute, Len(sampledRoute) - 1)
sampledLength == sampledDistances[Len(sampledDistances)]
sampledTarget == rng.tape[1] * sampledLength
sampledSegment == findSegment(sampledDistances, rng.tape[1], sampledLength, 2)

\* v lies between a and b
between(v, a, b) == Min(a, b) <= v /\ v <= Max(a, b)

\* The point lies within the extent of the segment from waypoint p1 to p2
withinSegment(point, p1, p2) ==
    /\ between(point.x, geoToWorld(p1.lon, p1.lat).x, geoToWorld(p2.lon, p2.lat).x)
    /\ between(point.z, geoToWorld(p1.lon, p1.lat).z, geoToWorld(p2.lon, p2.lat).z)

\* C30 (route sampling by cumulative-distance inversion): for a route of two
\* or more waypoints and a target distance d in [0, total length), the
\* segment chosen is a segment of the route with cum[i] <= d <= cum[i+1]; the
\* interpolation factor (d - cum[i]) / (cum[i+1] - cum[i]) is within [0, 1],
\* and the point returned lies between the segment's ends; the point is the
\* segment's start for a segment of no length and for d = cum[i].  For a
\* route of no length the point is the first waypoint.
C30_RouteSampling ==
    lastOp = "getRandomPointOnRoute" =>
      IF sampledLength > 0
      THEN /\ sampledSegment \in 0..(Len(sampledRoute) - 2)
           /\ sampledDistances[sampledSegment + 1] * RandDen <= sampledTarget
           /\ sampledTarget <= sampledDistances[sampledSegment + 2] * RandDen
           /\ withinSegment(emissions[1], sampledRoute[sampledSegment + 1],
                            sampledRoute[sampledSegment + 2])
           /\ (\/ sampledDistances[sampledSegment + 2]
                    = sampledDistances[sampledSegment + 1]
               \/ sampledTarget = sampledDistances[sampledSegment + 1] * RandDen)
                => emissions[1] = geoToWorld(sampledRoute[sampledSegment + 1].lon,
                                             sampledRoute[sampledSegment + 1].lat)
      ELSE emissions[1] = geoToWorld(sampledRoute[1].lon, sampledRoute[1].lat)

\* A point was sampled strictly inside the last segment of a route of four
\* waypoints whose second segment has no length and whose first segment is
\* shorter than the last.
C30_Witness ==
    /\ lastOp = "getRandomPointOnRoute"
    /\ Len(sampledRoute) = 4
    /\ sampledDistances[2] > 0
    /\ sampledDistances[3] = sampledDistances[2]
    /\ sampledSegment = 2
    /\ sampledTarget > sampledDistances[3] * RandDen
    /\ sampledTarget < sampledDistances[4] * RandDen
    /\ emissions[1] # geoToWorld(sampledRoute[3].lon, sampledRoute[3].lat)
    /\ emissions[1] # geoToWorld(sampledRoute[4].lon, sampledRoute[4].lat)


=============================================================================
